---- MODULE Spec2Model ----
(***************************************************************************)
(* A model of peg-pack: the instruction graph (core), its analyses and     *)
(* rewrites, and the parse interpreter (runtime::Context).                  *)
(***************************************************************************)
EXTENDS Integers, Sequences, FiniteSets, TLC

VARIABLES
    pc,             \* what the modelled procedure is doing
    parser,         \* core::Parser: start and the stores
    input,          \* Context.input: the byte buffer
    position,       \* Context.position
    state_stack,    \* Context.state_stack (top is the last element)
    result_stack,   \* Context.result_stack (top is the last element)
    cache,          \* Context.cache: slot -> (position -> entry)
    outcome,        \* what Context::finish returned
    start_stack,    \* observer: the position at which each frame of state_stack was pushed
    stored,         \* observer: what state_cache_end inserted, keyed by slot and start position
    hits,           \* observer: how many times state_cache_start found an entry in this run
    queue,          \* solve_fixed_point: FixedPointQueue.elements
    states,         \* solve_fixed_point: FixedPointStates
    reevaluated,    \* observer: some instruction was evaluated a second time
    cursor,         \* validate: the instructions still to examine, in store order
    errors,         \* validate: the LeftRecursion errors found
    verdict,        \* load: what it returned
    original,       \* transform: the graph before the optimising passes
    uncached,       \* transform: the graph it returns with cache_insertion off
    results,        \* what the parses of the input with each graph returned
    phase,          \* which of the graphs the interpreter is running
    round,          \* transform: the optimisation rounds completed
    operands,       \* the arguments of the operation on series, classes or matches in hand
    answer,         \* what that operation returned
    tree_walk,      \* visit: the Walk over the match tree
    callbacks,      \* visit: the calls the visitor has received and what it returned
    keyed,          \* a Store driven through its public functions
    issued,         \* the keys reserve and insert have returned and set was given
    pass_state      \* normalize: the stage, the State of run_passes and its modified flag

interpVars ==
    <<input, position, state_stack, result_stack, cache, outcome, start_stack, stored, hits>>
analysisVars == <<queue, states, reevaluated, cursor, errors, verdict>>
pipelineVars == <<original, uncached, results, phase, round>>
algebraVars == <<operands, answer, tree_walk, callbacks, keyed, issued, pass_state>>
vars == <<pc, parser, interpVars, analysisVars, pipelineVars, algebraVars>>

(***************************************************************************)
(* Bounds of the model                                                      *)
(***************************************************************************)
MaxLen == 3

Bytes == {97, 98}

Max(x, y) == IF x >= y THEN x ELSE y
Min(x, y) == IF x <= y THEN x ELSE y

RECURSIVE SeqsUpTo(_, _)
SeqsUpTo(S, n) ==
    IF n = 0 THEN {<<>>}
    ELSE LET shorter == SeqsUpTo(S, n - 1)
         IN shorter \cup {Append(q, e) : q \in {r \in shorter : Len(r) = n - 1}, e \in S}

Inputs == SeqsUpTo(Bytes, MaxLen)

(***************************************************************************)
(* Option<T>                                                                *)
(***************************************************************************)
None == <<>>
Some(v) == <<v>>
is_some(o) == o # <<>>
is_none(o) == o = <<>>
unwrap(o) == o[1]

(***************************************************************************)
(* runtime/mod.rs: work constants                                           *)
(***************************************************************************)
SERIES_WORK == 1
CACHE_WORK == 25
LABEL_WORK == 50
MARK_ERROR_WORK == 50
NOT_AHEAD_WORK == 1
CHOICE_WORK == 1
SEQ_WORK == 1
MAX_UNCACHED_WORK == 250

U8_MIN == 0
U8_MAX == 255

(***************************************************************************)
(* core/mod.rs: Instruction.  f is first/target, s is second, x is the      *)
(* series, label, expected id or cache slot.                                *)
(***************************************************************************)
NoId == -1

Instruction_Seq(first, second) == [k |-> "Seq", f |-> first, s |-> second, x |-> NoId]
Instruction_Choice(first, second) == [k |-> "Choice", f |-> first, s |-> second, x |-> NoId]
Instruction_FirstChoice(first, second) == [k |-> "FirstChoice", f |-> first, s |-> second, x |-> NoId]
Instruction_NotAhead(target) == [k |-> "NotAhead", f |-> target, s |-> NoId, x |-> NoId]
Instruction_Error(target, expected) == [k |-> "Error", f |-> target, s |-> NoId, x |-> expected]
Instruction_Label(target, label) == [k |-> "Label", f |-> target, s |-> NoId, x |-> label]
Instruction_Cache(target, slot) == [k |-> "Cache", f |-> target, s |-> NoId, x |-> slot]
Instruction_Delegate(target) == [k |-> "Delegate", f |-> target, s |-> NoId, x |-> NoId]
Instruction_Series(series) == [k |-> "Series", f |-> NoId, s |-> NoId, x |-> series]

BinaryKinds == {"Seq", "Choice", "FirstChoice"}
UnaryKinds == {"NotAhead", "Error", "Label", "Cache", "Delegate"}

\* Instruction::successors, in source order
successors(instruction) ==
    IF instruction.k \in BinaryKinds THEN <<instruction.f, instruction.s>>
    ELSE IF instruction.k \in UnaryKinds THEN <<instruction.f>>
    ELSE <<>>

(***************************************************************************)
(* core/series.rs: Class and Series                                         *)
(***************************************************************************)
Class_new(negated) == [negated |-> negated, ranges |-> <<>>]

Class_is_never(class) ==
    IF class.negated THEN class.ranges = <<<<U8_MIN, U8_MAX>>>>
    ELSE class.ranges = <<>>

Series_empty == <<>>

Series_is_empty(series) == series = <<>>

Series_is_never(series) == \E i \in 1..Len(series) : Class_is_never(series[i])

\* generation.rs, generate_class_function: the emitted class_<s>_<i>(char)
class_fn(class, char) ==
    IF \E i \in 1..Len(class.ranges) :
          class.ranges[i][1] <= char /\ char <= class.ranges[i][2]
    THEN ~class.negated
    ELSE class.negated

\* Input::get for [u8]
Input_get(in, pos) == IF pos < Len(in) THEN Some(in[pos + 1]) ELSE None

\* generation.rs, generate_series_function: the emitted series_<id>(input, position)
RECURSIVE series_loop(_, _, _, _, _)
series_loop(series, in, pos, i, length) ==
    IF i > Len(series) THEN <<TRUE, length>>
    ELSE LET char == Input_get(in, pos + length)
         IN IF is_some(char) /\ class_fn(series[i], unwrap(char))
            THEN series_loop(series, in, pos, i + 1, length + 1)
            ELSE <<FALSE, length + 1>>

series_fn(series, in, pos) ==
    IF Series_is_never(series) THEN <<FALSE, 0>>
    ELSE series_loop(series, in, pos, 1, 0)

(***************************************************************************)
(* core/series.rs: building and combining classes and series                *)
(***************************************************************************)
\* sort_unstable_by_key(start): insertion of one range into a sorted list
RECURSIVE sorted_insert(_, _)
sorted_insert(ranges, range) ==
    IF ranges = <<>> THEN <<range>>
    ELSE IF range[1] < Head(ranges)[1] THEN <<range>> \o ranges
    ELSE <<Head(ranges)>> \o sorted_insert(Tail(ranges), range)

RECURSIVE sort_by_start(_)
sort_by_start(ranges) ==
    IF ranges = <<>> THEN <<>>
    ELSE sorted_insert(sort_by_start(SubSeq(ranges, 1, Len(ranges) - 1)), ranges[Len(ranges)])

\* the while loop of Class::normalize, i counted from 1
RECURSIVE normalize_loop(_, _)
normalize_loop(ranges, i) ==
    IF i + 1 > Len(ranges) THEN ranges
    ELSE LET current == ranges[i]
             next == ranges[i + 1]
         IN IF current[2] >= next[1]
            THEN normalize_loop(
                     SubSeq(ranges, 1, i - 1)
                     \o << <<Min(current[1], next[1]), Max(current[2], next[2])>> >>
                     \o SubSeq(ranges, i + 2, Len(ranges)),
                     i)
            ELSE normalize_loop(ranges, i + 1)

Class_normalize(class) == [class EXCEPT !.ranges = normalize_loop(sort_by_start(@), 1)]

Class_insert(class, start, end) ==
    Class_normalize([class EXCEPT !.ranges = Append(@, <<start, end>>)])

RECURSIVE remove_loop(_, _, _)
remove_loop(ranges, start, end) ==
    IF ranges = <<>> THEN <<>>
    ELSE LET old == Head(ranges)
         IN (IF old[1] < start THEN << <<old[1], Min(old[2], start - 1)>> >> ELSE <<>>)
            \o (IF old[2] > end THEN << <<Max(old[1], end + 1), old[2]>> >> ELSE <<>>)
            \o remove_loop(Tail(ranges), start, end)

Class_remove(class, start, end) ==
    Class_normalize([class EXCEPT !.ranges = remove_loop(@, start, end)])

RECURSIVE insert_all(_, _)
insert_all(class, ranges) ==
    IF ranges = <<>> THEN class
    ELSE insert_all(Class_insert(class, Head(ranges)[1], Head(ranges)[2]), Tail(ranges))

RECURSIVE remove_all(_, _)
remove_all(class, ranges) ==
    IF ranges = <<>> THEN class
    ELSE remove_all(Class_remove(class, Head(ranges)[1], Head(ranges)[2]), Tail(ranges))

Class_union(first, second) ==
    IF first.negated = second.negated THEN insert_all(first, second.ranges)
    ELSE IF first.negated THEN remove_all(first, second.ranges)
    ELSE remove_all(second, first.ranges)

Class_contains(class, other) == class = Class_union(class, other)

Series_append(series, class) ==
    IF Series_is_never(Append(series, class)) THEN <<Class_new(FALSE)>>
    ELSE Append(series, class)

\* the series that never matches, as Series::append leaves it
Series_never == <<Class_new(FALSE)>>

RECURSIVE append_all(_, _)
append_all(series, classes) ==
    IF classes = <<>> THEN series
    ELSE append_all(Series_append(series, Head(classes)), Tail(classes))

Series_concatenate(first, second) == append_all(Series_empty, first \o second)

union_equivalent(first, second, len) ==
    IF SubSeq(first, 1, len - 1) # SubSeq(second, 1, len - 1) THEN None
    ELSE Some(Append(SubSeq(first, 1, len - 1), Class_union(first[len], second[len])))

union_subset(first, second, len) ==
    IF \A i \in 1..len : Class_contains(first[i], second[i]) THEN Some(first) ELSE None

Series_merge(first, second) ==
    IF Series_is_never(first) THEN Some(second)
    ELSE IF Series_is_never(second) THEN Some(first)
    ELSE IF Len(first) # Len(second) THEN None
    ELSE IF Len(first) = 0 THEN Some(Series_empty)
    ELSE IF is_some(union_equivalent(first, second, Len(first)))
         THEN union_equivalent(first, second, Len(first))
    ELSE IF is_some(union_subset(first, second, Len(first)))
         THEN union_subset(first, second, Len(first))
    ELSE union_subset(second, first, Len(first))

(***************************************************************************)
(* runtime/result.rs: Grouping, Match, ParseResult                          *)
(***************************************************************************)
GroupingNone == [kind |-> "None", v |-> NoId]
GroupingLabel(l) == [kind |-> "Label", v |-> l]
GroupingError(e) == [kind |-> "Error", v |-> e]

MATCH_CHILDREN == 4

\* MaybeUninit::uninit()
Uninit == [tag |-> "Uninit"]

Unmatched(scan_distance, work) ==
    [tag |-> "Unmatched", scan_distance |-> scan_distance, work |-> work]

Match_error_free(distance, scan_distance, work) ==
    [tag |-> "Matched", scan_distance |-> scan_distance, work |-> work,
     distance |-> distance, error_distance |-> None,
     grouping |-> GroupingNone, children |-> <<>>]

Match_empty(scan_distance, work) == Match_error_free(0, scan_distance, work)

is_match(r) == r.tag = "Matched"

error_distance(r) == IF is_match(r) THEN r.error_distance ELSE Some(0)

is_error_free(r) == is_none(error_distance(r))

scan_distance(r) == r.scan_distance

work(r) == r.work

distance(r) == IF is_match(r) THEN r.distance ELSE 0

extend_scan_distance(r, amount) == [r EXCEPT !.scan_distance = Max(@, amount)]

with_work(r, amount) == [r EXCEPT !.work = amount]

add_work(r, amount) == [r EXCEPT !.work = @ + amount]

\* Refc::new: a shared, immutable node; sharing is not observable
boxed(m) == m

Match_unboxed(b) ==
    [tag |-> "Matched", scan_distance |-> b.scan_distance, work |-> b.work,
     distance |-> b.distance, error_distance |-> b.error_distance,
     grouping |-> GroupingNone, children |-> <<<<0, b>>>>]

Match_wrap(m) == Match_unboxed(boxed(m))

negate(r) ==
    IF is_match(r) THEN Unmatched(r.scan_distance, r.work)
    ELSE Match_empty(r.scan_distance, r.work)

mark_error(r, expected) ==
    IF is_match(r)
    THEN IF r.grouping.kind = "None"
         THEN [r EXCEPT !.grouping = GroupingError(expected), !.error_distance = Some(0)]
         ELSE [r EXCEPT !.grouping = GroupingError(expected), !.error_distance = Some(0),
                        !.children = <<<<0, boxed(r)>>>>]
    ELSE r

label(r, l) ==
    IF is_match(r)
    THEN IF r.grouping.kind = "None"
         THEN [r EXCEPT !.grouping = GroupingLabel(l)]
         ELSE [r EXCEPT !.grouping = GroupingLabel(l), !.children = <<<<0, boxed(r)>>>>]
    ELSE r

merge_children(first, second) ==
    first.children \o
    [i \in 1..Len(second.children) |->
        <<second.children[i][1] + first.distance, second.children[i][2]>>]

\* the error distance of the later match taken first
later_error_distance(first, second) ==
    IF is_some(second.error_distance)
    THEN Some(first.distance + unwrap(second.error_distance))
    ELSE first.error_distance

combine_error_distance(first, second) ==
    IF is_some(first.error_distance) THEN first.error_distance
    ELSE IF is_some(second.error_distance)
         THEN Some(first.distance + unwrap(second.error_distance))
         ELSE None

Match_combine(first, second) ==
    LET scan == Max(first.scan_distance, first.distance + second.scan_distance)
        wk == first.work + second.work
        dist == first.distance + second.distance
        err == combine_error_distance(first, second)
    IN IF /\ first.grouping = GroupingNone
          /\ second.grouping = GroupingNone
          /\ Len(first.children) + Len(second.children) <= MATCH_CHILDREN
       THEN [tag |-> "Matched", scan_distance |-> scan, work |-> wk, distance |-> dist,
             error_distance |-> err, grouping |-> GroupingNone,
             children |-> merge_children(first, second)]
       ELSE [tag |-> "Matched", scan_distance |-> scan, work |-> wk, distance |-> dist,
             error_distance |-> err, grouping |-> GroupingNone,
             children |-> << <<0, boxed(first)>>, <<first.distance, boxed(second)>> >>]

(***************************************************************************)
(* runtime/stack.rs                                                         *)
(***************************************************************************)
Stack_of(value) == <<value>>
Stack_top(stack) == stack[Len(stack)]
Stack_set_top(stack, value) == [stack EXCEPT ![Len(stack)] = value]
Stack_push(stack, value) == Append(stack, value)
Stack_pop(stack) == SubSeq(stack, 1, Len(stack) - 1)

(***************************************************************************)
(* runtime/cache.rs                                                         *)
(***************************************************************************)
Cache_new(slots) == [slot \in 0..(slots - 1) |-> <<>>]

\* a lookup that never hits
Cache_get_miss(c, slot, pos) == None

Cache_get(c, slot, pos) ==
    IF pos \in DOMAIN c[slot]
    THEN LET entry == c[slot][pos]
         IN IF is_match(entry) THEN Some(Match_unboxed(entry)) ELSE Some(entry)
    ELSE None

\* returns <<cache, result>>
Cache_insert(c, slot, pos, result) ==
    LET entry == IF is_match(result) THEN boxed(result) ELSE result
        returned == IF is_match(result) THEN Match_unboxed(entry) ELSE result
    IN << [c EXCEPT ![slot] = (pos :> entry) @@ @], returned >>

(***************************************************************************)
(* store.rs: Store<K, V> as next_id and a map                               *)
(***************************************************************************)
Store_new == [next_id |-> 0, map |-> <<>>]

Store_ids(store) == DOMAIN store.map

Store_insert(store, value) ==
    [next_id |-> store.next_id + 1, map |-> (store.next_id :> value) @@ store.map]

Store_set(store, id, value) ==
    [next_id |-> Max(store.next_id, id + 1), map |-> (id :> value) @@ store.map]

\* Store::reserve: the store it leaves and the key it returns
Store_reserve(store) ==
    [store |-> [store EXCEPT !.next_id = @ + 1], id |-> store.next_id]

\* Store::drain: the store it leaves; the pairs it yields are those of the map
Store_drain(store) == Store_new

Store_remove(store, id) ==
    [store EXCEPT !.map = [j \in (DOMAIN store.map) \ {id} |-> store.map[j]]]

\* a store built by inserting the elements of a sequence in order
Store_from(values) ==
    [next_id |-> Len(values), map |-> [j \in 0..(Len(values) - 1) |-> values[j + 1]]]

(***************************************************************************)
(* runtime/context.rs: the interpreter                                      *)
(***************************************************************************)
\* a State is a generated function state_<id>_<stage>; FINISH_STATE is the sentinel
FINISH_STATE == [id |-> NoId, stage |-> 0]

StateOf(id, stage) == [id |-> id, stage |-> stage]

Context_new(in, start_state, cache_slots) ==
    [position |-> 0,
     state_stack |-> Stack_push(Stack_of(FINISH_STATE), start_state),
     result_stack |-> Stack_of(Uninit),
     cache |-> Cache_new(cache_slots)]

state(ctx) == Stack_top(ctx.state_stack)
state_mut(ctx, value) == [ctx EXCEPT !.state_stack = Stack_set_top(@, value)]
push_state(ctx, value) == [ctx EXCEPT !.state_stack = Stack_push(@, value)]
pop_state(ctx) == [ctx EXCEPT !.state_stack = Stack_pop(@)]
result(ctx) == Stack_top(ctx.result_stack)
set_result(ctx, value) == [ctx EXCEPT !.result_stack = Stack_set_top(@, value)]
stash_result(ctx) == [ctx EXCEPT !.result_stack = Stack_push(@, Uninit)]
\* pop_result and take_result return result(ctx); these are the contexts they leave
pop_result(ctx) == [ctx EXCEPT !.result_stack = Stack_pop(@)]
take_result(ctx) == [ctx EXCEPT !.result_stack = Stack_set_top(@, Uninit)]

state_seq_start(ctx, first, continuation) ==
    push_state(state_mut(ctx, continuation), first)

\* a sequence middle that lets the second branch write over the first result
seq_middle_without_stash(ctx, second, continuation) ==
    IF is_match(result(ctx))
    THEN push_state(state_mut(ctx, continuation), second)
    ELSE pop_state(set_result(take_result(ctx), add_work(result(ctx), SEQ_WORK)))

state_seq_middle(ctx, second, continuation) ==
    IF is_match(result(ctx))
    THEN push_state(state_mut(stash_result(ctx), continuation), second)
    ELSE pop_state(set_result(take_result(ctx), add_work(result(ctx), SEQ_WORK)))

\* a sequence end that leaves both results on the result stack
seq_end_keeping_results(ctx) == pop_state(ctx)

state_seq_end(ctx) ==
    LET second == result(ctx)
        c1 == pop_result(ctx)
        first == result(c1)
        c2 == take_result(c1)
    IN IF is_match(second)
       THEN pop_state(set_result(c2, add_work(Match_combine(first, second), SEQ_WORK)))
       ELSE pop_state(set_result(
                [c2 EXCEPT !.position = @ - first.distance],
                Unmatched(Max(first.scan_distance, first.distance + second.scan_distance),
                          second.work + first.work + SEQ_WORK)))

state_choice_start(ctx, first, continuation) ==
    push_state(state_mut(ctx, continuation), first)

\* a choice middle that starts the second branch where the first one stopped
choice_middle_without_rewind(ctx, second, continuation) ==
    IF is_error_free(result(ctx))
    THEN pop_state(set_result(take_result(ctx), add_work(result(ctx), CHOICE_WORK)))
    ELSE push_state(state_mut(stash_result(ctx), continuation), second)

state_choice_middle(ctx, second, continuation) ==
    IF is_error_free(result(ctx))
    THEN pop_state(set_result(take_result(ctx), add_work(result(ctx), CHOICE_WORK)))
    ELSE push_state(state_mut(stash_result(
             [ctx EXCEPT !.position = @ - distance(result(ctx))]), continuation), second)

\* the branch of state_choice_end taken when both results matched
use_second(first, second) ==
    LET first_distance == unwrap(error_distance(first))
        second_distance == error_distance(second)
    IN IF is_some(second_distance) THEN first_distance > unwrap(second_distance) ELSE TRUE

\* a choice end that leaves both results on the result stack
choice_end_keeping_results(ctx) == pop_state(ctx)

state_choice_end(ctx) ==
    LET second == result(ctx)
        c1 == pop_result(ctx)
        first == result(c1)
        c2 == take_result(c1)
        wk == work(first) + work(second) + CHOICE_WORK
    IN IF ~is_match(first)
       THEN pop_state(set_result(c2,
                with_work(extend_scan_distance(second, scan_distance(first)), wk)))
       ELSE IF ~is_match(second)
       THEN pop_state(set_result([c2 EXCEPT !.position = @ + distance(first)],
                with_work(extend_scan_distance(first, scan_distance(second)), wk)))
       ELSE IF use_second(first, second)
       THEN pop_state(set_result(c2,
                with_work(extend_scan_distance(second, scan_distance(first)), wk)))
       ELSE pop_state(set_result(
                [c2 EXCEPT !.position = (@ - distance(second)) + distance(first)],
                with_work(extend_scan_distance(first, scan_distance(second)), wk)))

state_first_choice_start(ctx, first, continuation) ==
    push_state(state_mut(ctx, continuation), first)

\* a first-choice middle that commits only to an error-free first branch
first_choice_middle_like_choice(ctx, second) ==
    IF is_error_free(result(ctx))
    THEN pop_state(set_result(take_result(ctx), add_work(result(ctx), CHOICE_WORK)))
    ELSE state_mut(take_result([ctx EXCEPT !.position = @ - distance(result(ctx))]), second)

state_first_choice_middle(ctx, second) ==
    IF is_match(result(ctx))
    THEN pop_state(set_result(take_result(ctx), add_work(result(ctx), CHOICE_WORK)))
    ELSE state_mut(take_result([ctx EXCEPT !.position = @ - distance(result(ctx))]), second)

state_not_ahead_start(ctx, target, continuation) ==
    push_state(state_mut(ctx, continuation), target)

\* a not-ahead end that does not rewind
not_ahead_end_without_rewind(ctx) ==
    pop_state(set_result(ctx, add_work(negate(result(ctx)), NOT_AHEAD_WORK)))

state_not_ahead_end(ctx) ==
    pop_state(set_result([ctx EXCEPT !.position = @ - distance(result(ctx))],
                         add_work(negate(result(ctx)), NOT_AHEAD_WORK)))

state_error_start(ctx, target, continuation) ==
    push_state(state_mut(ctx, continuation), target)

state_error_end(ctx, expected) ==
    pop_state(set_result(ctx, add_work(mark_error(result(ctx), expected), MARK_ERROR_WORK)))

state_label_start(ctx, target, continuation) ==
    push_state(state_mut(ctx, continuation), target)

state_label_end(ctx, l) ==
    pop_state(set_result(ctx, add_work(label(result(ctx), l), LABEL_WORK)))

\* a cache_start that installs a stored result without advancing past it
cache_start_without_advance(ctx, slot, target, continuation) ==
    LET hit == Cache_get(ctx.cache, slot, ctx.position)
    IN IF is_some(hit)
       THEN pop_state(set_result(ctx, unwrap(hit)))
       ELSE push_state(state_mut(ctx, continuation), target)

state_cache_start(ctx, slot, target, continuation) ==
    LET hit == Cache_get(ctx.cache, slot, ctx.position)
    IN IF is_some(hit)
       THEN pop_state(set_result([ctx EXCEPT !.position = @ + distance(unwrap(hit))],
                                 unwrap(hit)))
       ELSE push_state(state_mut(ctx, continuation), target)

state_cache_end(ctx, slot) ==
    IF work(result(ctx)) > MAX_UNCACHED_WORK
    THEN LET taken == with_work(result(ctx), CACHE_WORK)
             pos == ctx.position - distance(taken)
             inserted == Cache_insert(ctx.cache, slot, pos, taken)
         IN pop_state(set_result([ctx EXCEPT !.cache = inserted[1]], inserted[2]))
    ELSE pop_state(ctx)

state_delegate(ctx, target) == state_mut(ctx, target)

state_series(ctx, in, series) ==
    LET m == series_fn(series, in, ctx.position)
    IN IF m[1]
       THEN pop_state(set_result([ctx EXCEPT !.position = @ + m[2]],
                                 Match_error_free(m[2], m[2], SERIES_WORK)))
       ELSE pop_state(set_result(ctx, Unmatched(m[2], SERIES_WORK)))

(***************************************************************************)
(* core/transformation/cache_assignment.rs                                  *)
(***************************************************************************)
\* every Cache is given the slot the loop started with
RECURSIVE assign_loop_one_slot(_, _, _)
assign_loop_one_slot(instructions, id, next_slot) ==
    IF id >= instructions.next_id THEN instructions
    ELSE IF id \in Store_ids(instructions) /\ instructions.map[id].k = "Cache"
         THEN assign_loop_one_slot(
                  Store_set(instructions, id,
                            Instruction_Cache(instructions.map[id].f, next_slot)),
                  id + 1, next_slot)
         ELSE assign_loop_one_slot(instructions, id + 1, next_slot)

RECURSIVE assign_loop(_, _, _)
assign_loop(instructions, id, next_slot) ==
    IF id >= instructions.next_id THEN instructions
    ELSE IF id \in Store_ids(instructions) /\ instructions.map[id].k = "Cache"
         THEN assign_loop(
                  Store_set(instructions, id, Instruction_Cache(instructions.map[id].f, next_slot)),
                  id + 1, next_slot + 1)
         ELSE assign_loop(instructions, id + 1, next_slot)

assign_cache_ids(p) == [p EXCEPT !.instructions = assign_loop(@, 0, 0)]

\* generation.rs: the CACHE_SLOTS the generated grammar reports
cache_slots(p) ==
    Cardinality({id \in Store_ids(p.instructions) : p.instructions.map[id].k = "Cache"})

(***************************************************************************)
(* The interpreter as a state machine: Context::finish runs one generated   *)
(* state function per iteration (generation.rs gives each its primitive).   *)
(***************************************************************************)
Ctx ==
    [position |-> position, state_stack |-> state_stack,
     result_stack |-> result_stack, cache |-> cache]

Instr == parser.instructions.map[state(Ctx).id]

\* no run of a validated grammar nests deeper than this
MaxDepth == Cardinality(Store_ids(parser.instructions)) * (Len(input) + 1) + 2

At(kind, stage) ==
    /\ pc = "run"
    /\ state(Ctx) # FINISH_STATE
    /\ Len(state_stack) <= MaxDepth
    /\ Instr.k = kind
    /\ state(Ctx).stage = stage

Continuation == StateOf(state(Ctx).id, state(Ctx).stage + 1)

Install(c) ==
    /\ position' = c.position
    /\ state_stack' = c.state_stack
    /\ result_stack' = c.result_stack
    /\ cache' = c.cache
    /\ start_stack' =
          IF Len(c.state_stack) > Len(state_stack) THEN Append(start_stack, c.position)
          ELSE IF Len(c.state_stack) < Len(state_stack) THEN Stack_pop(start_stack)
          ELSE start_stack
    /\ UNCHANGED <<pc, parser, input, outcome, analysisVars, algebraVars, pipelineVars>>

SeqStart ==
    /\ At("Seq", 0)
    /\ Install(state_seq_start(Ctx, StateOf(Instr.f, 0), Continuation))
    /\ UNCHANGED <<stored, hits>>

SeqMiddle ==
    /\ At("Seq", 1)
    /\ Install(state_seq_middle(Ctx, StateOf(Instr.s, 0), Continuation))
    /\ UNCHANGED <<stored, hits>>

SeqEnd ==
    /\ At("Seq", 2)
    /\ Install(state_seq_end(Ctx))
    /\ UNCHANGED <<stored, hits>>

ChoiceStart ==
    /\ At("Choice", 0)
    /\ Install(state_choice_start(Ctx, StateOf(Instr.f, 0), Continuation))
    /\ UNCHANGED <<stored, hits>>

ChoiceMiddle ==
    /\ At("Choice", 1)
    /\ Install(state_choice_middle(Ctx, StateOf(Instr.s, 0), Continuation))
    /\ UNCHANGED <<stored, hits>>

ChoiceEnd ==
    /\ At("Choice", 2)
    /\ Install(state_choice_end(Ctx))
    /\ UNCHANGED <<stored, hits>>

FirstChoiceStart ==
    /\ At("FirstChoice", 0)
    /\ Install(state_first_choice_start(Ctx, StateOf(Instr.f, 0), Continuation))
    /\ UNCHANGED <<stored, hits>>

FirstChoiceMiddle ==
    /\ At("FirstChoice", 1)
    /\ Install(state_first_choice_middle(Ctx, StateOf(Instr.s, 0)))
    /\ UNCHANGED <<stored, hits>>

NotAheadStart ==
    /\ At("NotAhead", 0)
    /\ Install(state_not_ahead_start(Ctx, StateOf(Instr.f, 0), Continuation))
    /\ UNCHANGED <<stored, hits>>

NotAheadEnd ==
    /\ At("NotAhead", 1)
    /\ Install(state_not_ahead_end(Ctx))
    /\ UNCHANGED <<stored, hits>>

ErrorStart ==
    /\ At("Error", 0)
    /\ Install(state_error_start(Ctx, StateOf(Instr.f, 0), Continuation))
    /\ UNCHANGED <<stored, hits>>

ErrorEnd ==
    /\ At("Error", 1)
    /\ Install(state_error_end(Ctx, Instr.x))
    /\ UNCHANGED <<stored, hits>>

LabelStart ==
    /\ At("Label", 0)
    /\ Install(state_label_start(Ctx, StateOf(Instr.f, 0), Continuation))
    /\ UNCHANGED <<stored, hits>>

LabelEnd ==
    /\ At("Label", 1)
    /\ Install(state_label_end(Ctx, Instr.x))
    /\ UNCHANGED <<stored, hits>>

CacheStart ==
    /\ At("Cache", 0)
    /\ Install(state_cache_start(Ctx, Instr.x, StateOf(Instr.f, 0), Continuation))
    /\ hits' = IF is_some(Cache_get(cache, Instr.x, position)) THEN hits + 1 ELSE hits
    /\ UNCHANGED stored

CacheEnd ==
    /\ At("Cache", 1)
    /\ Install(state_cache_end(Ctx, Instr.x))
    /\ stored' =
          IF work(result(Ctx)) > MAX_UNCACHED_WORK
          THEN (<<Instr.x, position - distance(result(Ctx))>> :> result_stack'[Len(result_stack')])
               @@ stored
          ELSE stored
    /\ UNCHANGED hits

DelegateStep ==
    /\ At("Delegate", 0)
    /\ Install(state_delegate(Ctx, StateOf(Instr.f, 0)))
    /\ UNCHANGED <<stored, hits>>

SeriesStep ==
    /\ At("Series", 0)
    /\ Install(state_series(Ctx, input, parser.series.map[Instr.x]))
    /\ UNCHANGED <<stored, hits>>

\* Context::finish: the loop exits on the sentinel and returns take_result()
Finish ==
    /\ pc = "run"
    /\ state(Ctx) = FINISH_STATE
    /\ outcome' = result(Ctx)
    /\ result_stack' = take_result(Ctx).result_stack
    /\ pc' = "done"
    /\ UNCHANGED <<parser, input, position, state_stack, cache, start_stack, stored, hits,
                 analysisVars, algebraVars, pipelineVars>>

InterpStep ==
    \/ SeqStart \/ SeqMiddle \/ SeqEnd
    \/ ChoiceStart \/ ChoiceMiddle \/ ChoiceEnd
    \/ FirstChoiceStart \/ FirstChoiceMiddle
    \/ NotAheadStart \/ NotAheadEnd
    \/ ErrorStart \/ ErrorEnd
    \/ LabelStart \/ LabelEnd
    \/ CacheStart \/ CacheEnd
    \/ DelegateStep \/ SeriesStep

\* Context::run(input, grammar): Context::new, then the loop
StartRun(g, in) ==
    LET c == Context_new(in, StateOf(g.start, 0), cache_slots(g))
    IN /\ parser = g
       /\ input = in
       /\ position = c.position
       /\ state_stack = c.state_stack
       /\ result_stack = c.result_stack
       /\ cache = c.cache
       /\ outcome = Uninit
       /\ start_stack = <<0, 0>>
       /\ stored = <<>>
       /\ hits = 0
       /\ pc = "run"

(***************************************************************************)
(* Grammars                                                                 *)
(***************************************************************************)
Lit(byte) == [negated |-> FALSE, ranges |-> <<<<byte, byte>>>>]
NotLit(byte) == [negated |-> TRUE, ranges |-> <<<<byte, byte>>>>]

\* series 0: empty, 1: a, 2: b, 3: [^a], 4: [^b], 5: ab
SeriesPool ==
    << Series_empty, <<Lit(97)>>, <<Lit(98)>>, <<NotLit(97)>>, <<NotLit(98)>>,
       <<Lit(97), Lit(98)>> >>

Grammar(instructions) ==
    [start |-> 0,
     instructions |-> Store_from(instructions),
     series |-> Store_from(SeriesPool),
     labels |-> Store_from(<<"l0", "l1">>),
     expecteds |-> Store_from(<<"e0", "e1">>)]

(***************************************************************************)
(* core/structure.rs: predecessors                                          *)
(***************************************************************************)
Range(q) == {q[i] : i \in DOMAIN q}

Ids(p) == Store_ids(p.instructions)

InstructionAt(p, id) == p.instructions.map[id]

\* a predecessor map that knows no predecessors
no_predecessors(p) ==
    [id \in Ids(p) \cup UNION {Range(successors(InstructionAt(p, j))) : j \in Ids(p)} |-> {}]

compute_predecessors(p) ==
    [id \in Ids(p) \cup UNION {Range(successors(InstructionAt(p, j))) : j \in Ids(p)} |->
        {j \in Ids(p) : id \in Range(successors(InstructionAt(p, j)))}]

(***************************************************************************)
(* core/character.rs: the evaluation rules of the character analysis        *)
(***************************************************************************)
DefaultCharacter ==
    [transparent |-> FALSE, antitransparent |-> FALSE, fallible |-> FALSE,
     label_prone |-> FALSE, error_prone |-> FALSE]

possible(c) == c.transparent \/ c.antitransparent

\* FixedPointStates: Index falls back to the default
FixedPointStates_new(default) == [map |-> <<>>, default |-> default]

FixedPointStates_index(st, id) == IF id \in DOMAIN st.map THEN st.map[id] ELSE st.default

FixedPointStates_set(st, id, value) == [st EXCEPT !.map = (id :> value) @@ @]

characterize_seq(first, second) ==
    [transparent |-> (first.transparent /\ second.transparent)
                        /\ (possible(first) /\ possible(second)),
     antitransparent |-> (first.antitransparent \/ second.antitransparent)
                        /\ (possible(first) /\ possible(second)),
     fallible |-> first.fallible \/ second.fallible,
     label_prone |-> (first.label_prone \/ second.label_prone)
                        /\ (possible(first) /\ possible(second)),
     error_prone |-> (first.error_prone \/ second.error_prone)
                        /\ (possible(first) /\ possible(second))]

choice_character(first, second, second_executable) ==
    [transparent |-> first.transparent \/ (second_executable /\ second.transparent),
     antitransparent |-> first.antitransparent \/ (second_executable /\ second.antitransparent),
     fallible |-> first.fallible /\ second.fallible,
     label_prone |-> first.label_prone \/ (second_executable /\ second.label_prone),
     error_prone |-> first.error_prone \/ (second_executable /\ second.error_prone)]

characterize_choice(first, second) ==
    choice_character(first, second, first.fallible \/ first.error_prone)

\* FirstChoice: as Choice, but the second branch runs only when the first fails
characterize_first_choice(first, second) ==
    choice_character(first, second, first.fallible)

\* a not-ahead that is taken never to match without consuming
not_ahead_opaque(target) ==
    [transparent |-> FALSE, antitransparent |-> FALSE,
     fallible |-> possible(target), label_prone |-> FALSE, error_prone |-> FALSE]

characterize_not_ahead(target) ==
    [transparent |-> target.fallible, antitransparent |-> FALSE,
     fallible |-> possible(target), label_prone |-> FALSE, error_prone |-> FALSE]

characterize_label(target) == [target EXCEPT !.label_prone = possible(target)]

characterize_error(target) == [target EXCEPT !.error_prone = possible(target)]

characterize_delegate_like(target) == target

characterize_series(series) ==
    [transparent |-> Series_is_empty(series),
     antitransparent |-> ~Series_is_empty(series) /\ ~Series_is_never(series),
     fallible |-> ~Series_is_empty(series),
     label_prone |-> FALSE, error_prone |-> FALSE]

\* the closure patch_characters hands to solve_fixed_point
evaluate(p, instruction, st) ==
    LET first == FixedPointStates_index(st, instruction.f)
        second == FixedPointStates_index(st, instruction.s)
    IN CASE instruction.k = "Seq" -> characterize_seq(first, second)
         [] instruction.k = "Choice" -> characterize_choice(first, second)
         [] instruction.k = "FirstChoice" -> characterize_first_choice(first, second)
         [] instruction.k = "NotAhead" -> characterize_not_ahead(first)
         [] instruction.k = "Error" -> characterize_error(first)
         [] instruction.k = "Label" -> characterize_label(first)
         [] instruction.k \in {"Cache", "Delegate"} -> characterize_delegate_like(first)
         [] instruction.k = "Series" -> characterize_series(p.series.map[instruction.x])

(***************************************************************************)
(* core/fixed_point.rs: the worklist                                        *)
(***************************************************************************)
RECURSIVE ascending(_)
ascending(S) ==
    IF S = {} THEN <<>>
    ELSE LET least == CHOOSE x \in S : \A y \in S : x <= y
         IN <<least>> \o ascending(S \ {least})

\* every order in which a HashSet may be iterated
Orders(S) ==
    {q \in [1..Cardinality(S) -> S] : \A i, j \in 1..Cardinality(S) : q[i] = q[j] => i = j}

\* FixedPointQueue::insert, for each element of a sequence in turn
RECURSIVE FixedPointQueue_insert_all(_, _)
FixedPointQueue_insert_all(elements, values) ==
    IF values = <<>> THEN elements
    ELSE FixedPointQueue_insert_all(
             IF Head(values) \in Range(elements) THEN elements
             ELSE Append(elements, Head(values)),
             Tail(values))

\* the queue solve_fixed_point starts from
fixed_point_seed(p) == FixedPointQueue_insert_all(<<>>, ascending(Ids(p)))

\* one iteration of the while loop of solve_fixed_point; order is the order in
\* which the predecessors of the popped instruction are visited
fixed_point_step(p, fp, order) ==
    LET id == fp.queue[Len(fp.queue)]
        popped == SubSeq(fp.queue, 1, Len(fp.queue) - 1)
        new_value == evaluate(p, InstructionAt(p, id), fp.states)
        updated == FixedPointStates_index(fp.states, id) # new_value
    IN [queue |-> IF updated THEN FixedPointQueue_insert_all(popped, order) ELSE popped,
        states |-> FixedPointStates_set(fp.states, id, new_value)]

RECURSIVE fixed_point_loop(_, _)
fixed_point_loop(p, fp) ==
    IF fp.queue = <<>> THEN fp.states.map
    ELSE fixed_point_loop(p,
             fixed_point_step(p, fp,
                 ascending(compute_predecessors(p)[fp.queue[Len(fp.queue)]])))

solve_fixed_point(p, default) ==
    fixed_point_loop(p, [queue |-> fixed_point_seed(p),
                         states |-> FixedPointStates_new(default)])

characterize(p) == solve_fixed_point(p, DefaultCharacter)

(***************************************************************************)
(* core/validation.rs                                                       *)
(***************************************************************************)
\* a search that follows only the first successor
RECURSIVE can_reach_first_only(_, _, _, _, _)
can_reach_first_only(p, base, id, visited, characters) ==
    IF base = id /\ visited # {} THEN TRUE
    ELSE IF id \in visited THEN FALSE
    ELSE IF InstructionAt(p, id).k = "Series" THEN FALSE
    ELSE can_reach_first_only(p, base, InstructionAt(p, id).f, visited \cup {id}, characters)

RECURSIVE can_reach(_, _, _, _, _)
can_reach(p, base, id, visited, characters) ==
    IF base = id /\ visited # {} THEN TRUE
    ELSE IF id \in visited THEN FALSE
    ELSE LET seen == visited \cup {id}
             instruction == InstructionAt(p, id)
         IN CASE instruction.k = "Seq" ->
                    \/ can_reach(p, base, instruction.f, seen, characters)
                    \/ /\ characters[instruction.f].transparent
                       /\ can_reach(p, base, instruction.s, seen, characters)
              [] instruction.k = "Choice" ->
                    \/ can_reach(p, base, instruction.f, seen, characters)
                    \/ /\ (characters[instruction.f].fallible
                              \/ characters[instruction.f].error_prone)
                       /\ can_reach(p, base, instruction.s, seen, characters)
              [] instruction.k = "FirstChoice" ->
                    \/ can_reach(p, base, instruction.f, seen, characters)
                    \/ /\ characters[instruction.f].fallible
                       /\ can_reach(p, base, instruction.s, seen, characters)
              [] instruction.k \in UnaryKinds ->
                    can_reach(p, base, instruction.f, seen, characters)
              [] instruction.k = "Series" -> FALSE

validate(p) ==
    LET characters == characterize(p)
    IN {id \in Ids(p) : can_reach(p, id, id, {}, characters)}

(***************************************************************************)
(* Grammar families                                                         *)
(***************************************************************************)
\* the instructions a node of an n-instruction graph may hold
NodeChoices(n) ==
    {Instruction_Seq(f, s) : f \in 0..(n - 1), s \in 0..(n - 1)}
    \cup {Instruction_Choice(f, s) : f \in 0..(n - 1), s \in 0..(n - 1)}
    \cup {Instruction_FirstChoice(f, s) : f \in 0..(n - 1), s \in 0..(n - 1)}
    \cup {Instruction_NotAhead(f) : f \in 0..(n - 1)}
    \cup {Instruction_Error(f, 0) : f \in 0..(n - 1)}
    \cup {Instruction_Label(f, 0) : f \in 0..(n - 1)}
    \cup {Instruction_Cache(f, NoId) : f \in 0..(n - 1)}
    \cup {Instruction_Delegate(f) : f \in 0..(n - 1)}
    \cup {Instruction_Series(x) : x \in {0, 1, 3}}

PairGrammars == {Grammar(<<i0, i1>>) : i0 \in NodeChoices(2), i1 \in NodeChoices(2)}

\* three instructions, the last one the series a
TripleGrammars ==
    {Grammar(<<i0, i1, Instruction_Series(1)>>) : i0 \in NodeChoices(3), i1 \in NodeChoices(3)}

\* a*
StarGrammar ==
    Grammar(<<Instruction_Choice(1, 3), Instruction_Seq(2, 0),
              Instruction_Series(1), Instruction_Series(0)>>)

\* (a Error(empty)) | Error(empty): both branches match, errors at 1 and at 0
ErrorLateFirstGrammar ==
    Grammar(<<Instruction_Choice(1, 4), Instruction_Seq(2, 3), Instruction_Series(1),
              Instruction_Error(5, 0), Instruction_Error(5, 1), Instruction_Series(0)>>)

\* Error(empty) | (a Error(empty)): errors at 0 and at 1
ErrorEarlyFirstGrammar ==
    Grammar(<<Instruction_Choice(1, 2), Instruction_Error(5, 0), Instruction_Seq(3, 4),
              Instruction_Series(1), Instruction_Error(5, 1), Instruction_Series(0)>>)

\* l0( l1(a) Error([^a]) )
NestedLabelGrammar ==
    Grammar(<<Instruction_Label(1, 0), Instruction_Seq(2, 3), Instruction_Label(4, 1),
              Instruction_Error(5, 0), Instruction_Series(1), Instruction_Series(3)>>)

\* !a [^b]
NotAheadGrammar ==
    Grammar(<<Instruction_Seq(1, 2), Instruction_NotAhead(3),
              Instruction_Series(4), Instruction_Series(1)>>)

\* (a b) / a
FirstChoiceGrammar ==
    Grammar(<<Instruction_FirstChoice(1, 2), Instruction_Seq(2, 3),
              Instruction_Series(1), Instruction_Series(2)>>)

\* (C a) | (C b) with C a cached chain of five labels over a
CachedLabelGrammar ==
    Grammar(<<Instruction_Choice(1, 2), Instruction_Seq(3, 4), Instruction_Seq(3, 5),
              Instruction_Cache(6, NoId), Instruction_Series(1), Instruction_Series(2),
              Instruction_Label(7, 0), Instruction_Label(8, 1), Instruction_Label(9, 0),
              Instruction_Label(10, 1), Instruction_Label(11, 0), Instruction_Series(1)>>)

\* (C a) | (C b) with C a cached chain of errors and a label over [^a]
CachedErrorGrammar ==
    Grammar(<<Instruction_Choice(1, 2), Instruction_Seq(3, 4), Instruction_Seq(3, 5),
              Instruction_Cache(6, NoId), Instruction_Series(1), Instruction_Series(2),
              Instruction_Error(7, 0), Instruction_Error(8, 1), Instruction_Error(9, 0),
              Instruction_Error(10, 1), Instruction_Label(11, 0), Instruction_Series(3)>>)

\* Error(a) Error([^a])
TwoErrorsGrammar ==
    Grammar(<<Instruction_Seq(1, 2), Instruction_Error(3, 0), Instruction_Error(4, 1),
              Instruction_Series(1), Instruction_Series(3)>>)

\* X = !a X: left recursive through a transparent first
TransparentLoopGrammar ==
    Grammar(<<Instruction_Seq(1, 0), Instruction_NotAhead(2), Instruction_Series(1)>>)

\* X = a | (X b): left recursive through the second branch of a choice
ChoiceLoopGrammar ==
    Grammar(<<Instruction_Choice(1, 2), Instruction_Series(1),
              Instruction_Seq(0, 3), Instruction_Series(2)>>)

Catalogue ==
    {StarGrammar, ErrorLateFirstGrammar, ErrorEarlyFirstGrammar, NestedLabelGrammar,
     NotAheadGrammar, FirstChoiceGrammar, CachedLabelGrammar, CachedErrorGrammar,
     TwoErrorsGrammar,
     TransparentLoopGrammar, ChoiceLoopGrammar}

AllGrammars == Catalogue \cup PairGrammars \cup TripleGrammars

\* the grammars load accepts, with the cache slots assign_cache_ids gives them
RuntimeGrammars == {assign_cache_ids(g) : g \in {h \in AllGrammars : validate(h) = {}}}

StoreIdle ==
    /\ keyed = <<>>
    /\ issued = {}
    /\ pass_state = <<>>

VisitIdle ==
    /\ tree_walk = <<>>
    /\ callbacks = <<>>
    /\ StoreIdle

AlgebraIdle ==
    /\ operands = <<>>
    /\ answer = <<>>
    /\ VisitIdle

PipelineIdle ==
    /\ original = <<>>
    /\ uncached = <<>>
    /\ results = <<>>
    /\ phase = "idle"
    /\ round = 0

AnalysisIdle ==
    /\ queue = <<>>
    /\ states = FixedPointStates_new(DefaultCharacter)
    /\ reevaluated = FALSE
    /\ cursor = <<>>
    /\ errors = {}
    /\ verdict = "none"

(***************************************************************************)
(* The interpreter on every accepted grammar and every input                *)
(***************************************************************************)
InitInterp ==
    /\ \E g \in RuntimeGrammars, in \in Inputs : StartRun(g, in)
    /\ AnalysisIdle
    /\ PipelineIdle
    /\ AlgebraIdle

NextInterp == InterpStep \/ Finish

SpecInterp == InitInterp /\ [][NextInterp]_vars

TypeOK ==
    /\ pc \in {"run", "done"}
    /\ Len(start_stack) = Len(state_stack)

SpecInterpFair == InitInterp /\ [][NextInterp]_vars /\ WF_vars(NextInterp)

(***************************************************************************)
(* Properties of the interpreter                                            *)
(***************************************************************************)
\* C2: on every accepted grammar and every input the loop reaches the sentinel
\* and finish returns a Matched or an Unmatched result
C2_InterpreterTerminates == <>(pc = "done" /\ outcome.tag \in {"Matched", "Unmatched"})

C2_Witness ==
    /\ pc = "done"
    /\ parser = StarGrammar
    /\ Len(input) = MaxLen
    /\ is_match(outcome) /\ outcome.distance > 0

\* result r is the branch b as state_choice_end hands it on
IsBranch(r, b) ==
    /\ is_match(r)
    /\ r.distance = b.distance
    /\ r.error_distance = b.error_distance
    /\ r.grouping = b.grouping
    /\ r.children = b.children

BothBranchesMatched ==
    /\ At("Choice", 2)
    /\ is_match(result(Ctx))
    /\ is_match(result(pop_result(Ctx)))

\* C3: when both branches matched, choice_end keeps the branch without an
\* error, and otherwise the branch whose error_distance is greater
C3_ChoiceEndKeepsFartherError ==
    [][(ChoiceEnd /\ BothBranchesMatched) =>
        LET second == result(Ctx)
            first == result(pop_result(Ctx))
            kept == result_stack'[Len(result_stack')]
        IN /\ is_none(second.error_distance) /\ is_some(first.error_distance)
                => IsBranch(kept, second)
           /\ is_none(first.error_distance) /\ is_some(second.error_distance)
                => IsBranch(kept, first)
           /\ is_some(first.error_distance) /\ is_some(second.error_distance)
                /\ unwrap(first.error_distance) > unwrap(second.error_distance)
                => IsBranch(kept, first)
           /\ is_some(first.error_distance) /\ is_some(second.error_distance)
                /\ unwrap(second.error_distance) > unwrap(first.error_distance)
                => IsBranch(kept, second)]_vars

\* C6: when the loop exits, only the sentinel is on the state stack and the
\* result stack holds exactly one element, which is initialised
C6_StacksAtExit ==
    (pc = "run" /\ state(Ctx) = FINISH_STATE) =>
        /\ Len(state_stack) = 1
        /\ Len(result_stack) = 1
        /\ result(Ctx) # Uninit

C6_Witness ==
    /\ pc = "run"
    /\ state(Ctx) = FINISH_STATE
    /\ parser = StarGrammar
    /\ Len(input) = MaxLen
    /\ is_match(result(Ctx)) /\ result(Ctx).distance = MaxLen

\* C7: a cache_start at a slot and position for which cache_end stored a
\* result installs that result, advances by its distance and pops the state
C7_CacheHitInstallsStored ==
    [][(CacheStart /\ <<Instr.x, position>> \in DOMAIN stored) =>
        LET kept == stored[<<Instr.x, position>>]
            installed == result_stack'[Len(result_stack')]
        IN /\ installed.tag = kept.tag
           /\ distance(installed) = distance(kept)
           /\ scan_distance(installed) = scan_distance(kept)
           /\ error_distance(installed) = error_distance(kept)
           /\ position' = position + distance(kept)
           /\ state_stack' = Stack_pop(state_stack)
           /\ Len(result_stack') = Len(result_stack)]_vars

\* a cache_start has just hit an entry stored earlier in the run
C7_Witness ==
    /\ pc = "run"
    /\ parser = assign_cache_ids(CachedErrorGrammar)
    /\ <<0, 0>> \in DOMAIN stored
    /\ is_match(stored[<<0, 0>>])
    /\ state(Ctx) = StateOf(2, 2)
    /\ result(Ctx) # Uninit
    /\ position = 1

\* the offset of the earliest Error-grouped node of a match tree, if any
RECURSIVE earliest_error(_)
earliest_error(m) ==
    IF m.grouping.kind = "Error" THEN Some(0)
    ELSE LET offsets == {m.children[i][1] + unwrap(earliest_error(m.children[i][2])) :
                            i \in {j \in 1..Len(m.children) :
                                      is_some(earliest_error(m.children[j][2]))}}
         IN IF offsets = {} THEN None
            ELSE Some(CHOOSE o \in offsets : \A q \in offsets : o <= q)

\* every Match the context holds: on the result stack, in the cache, returned
CacheEntries == UNION {{cache[slot][q] : q \in DOMAIN cache[slot]} : slot \in DOMAIN cache}

HeldMatches == {r \in Range(result_stack) \cup CacheEntries \cup {outcome} : is_match(r)}

\* C8: error_distance of every match produced is the offset of the earliest
\* Error node of its tree (absent when there is none), and combine of two
\* matches yields the smaller of first's offset and first.distance plus second's
C8_ErrorDistanceIsEarliestError ==
    /\ \A m \in HeldMatches : m.error_distance = earliest_error(m)
    /\ (At("Seq", 2) /\ is_match(result(Ctx))) =>
          LET second == result(Ctx)
              first == result(pop_result(Ctx))
              combined == Match_combine(first, second).error_distance
          IN /\ is_some(combined) <=>
                    (is_some(first.error_distance) \/ is_some(second.error_distance))
             /\ is_some(first.error_distance) /\ is_some(second.error_distance) =>
                    unwrap(combined) = Min(unwrap(first.error_distance),
                                           first.distance + unwrap(second.error_distance))
             /\ is_some(first.error_distance) /\ is_none(second.error_distance) =>
                    combined = first.error_distance
             /\ is_none(first.error_distance) /\ is_some(second.error_distance) =>
                    unwrap(combined) = first.distance + unwrap(second.error_distance)

\* a sequence is about to combine two matches that both carry an error
C8_Witness ==
    /\ At("Seq", 2)
    /\ is_match(result(Ctx))
    /\ is_some(result(Ctx).error_distance)
    /\ is_some(result(pop_result(Ctx)).error_distance)
    /\ result(pop_result(Ctx)).distance > 0

\* C9: not_ahead_end puts position back where not_ahead_start found it, turns
\* a match into Unmatched and Unmatched into an empty match, and keeps the
\* target's scan_distance
C9_NotAheadRestoresPosition ==
    [][NotAheadEnd =>
        LET target == result(Ctx)
            returned == result_stack'[Len(result_stack')]
        IN /\ position' = Stack_top(start_stack)
           /\ is_match(target) => returned.tag = "Unmatched"
           /\ ~is_match(target) =>
                 /\ is_match(returned)
                 /\ returned.distance = 0
                 /\ is_none(returned.error_distance)
                 /\ returned.grouping = GroupingNone
                 /\ returned.children = <<>>
           /\ scan_distance(returned) = scan_distance(target)]_vars

\* a not_ahead_end has just negated a target that had consumed input
C9_Witness ==
    /\ pc = "run"
    /\ parser = NotAheadGrammar
    /\ input = <<97>>
    /\ state(Ctx) = StateOf(0, 1)
    /\ result(Ctx).tag = "Unmatched"
    /\ position = 0

(***************************************************************************)
(* core/walk.rs, core/mod.rs: walking and remapping the graph               *)
(***************************************************************************)
Reverse(q) == [i \in 1..Len(q) |-> q[Len(q) + 1 - i]]

\* the successors are pushed in their own order, so the second is popped first
RECURSIVE walk_loop_second_first(_, _, _, _)
walk_loop_second_first(p, stack, visited, out) ==
    IF stack = <<>> THEN out
    ELSE IF stack[Len(stack)] \in visited
         THEN walk_loop_second_first(p, SubSeq(stack, 1, Len(stack) - 1), visited, out)
         ELSE walk_loop_second_first(
                  p,
                  SubSeq(stack, 1, Len(stack) - 1)
                      \o successors(InstructionAt(p, stack[Len(stack)])),
                  visited \cup {stack[Len(stack)]},
                  Append(out, stack[Len(stack)]))

RECURSIVE walk_loop(_, _, _, _)
walk_loop(p, stack, visited, out) ==
    IF stack = <<>> THEN out
    ELSE LET candidate == stack[Len(stack)]
             rest == SubSeq(stack, 1, Len(stack) - 1)
         IN IF candidate \in visited THEN walk_loop(p, rest, visited, out)
            ELSE walk_loop(p, rest \o Reverse(successors(InstructionAt(p, candidate))),
                           visited \cup {candidate}, Append(out, candidate))

\* the ids Parser::walk yields, in order
walk(p) == walk_loop(p, <<p.start>>, {}, <<>>)

\* Instruction::remapped with the mapper given as a function on ids
remapped(instruction, mapper) ==
    [instruction EXCEPT !.f = IF @ = NoId THEN @ ELSE mapper[@],
                        !.s = IF @ = NoId THEN @ ELSE mapper[@]]

\* follow_mappings
RECURSIVE follow_mappings(_, _)
follow_mappings(id, mappings) ==
    IF id \in DOMAIN mappings THEN follow_mappings(mappings[id], mappings) ELSE id

\* Parser::remap with the mapper id -> follow_mappings(id, mappings)
remap(p, mappings) ==
    [p EXCEPT !.instructions.map =
                  [id \in DOMAIN @ |->
                      remapped(@[id], [j \in Ids(p) |-> follow_mappings(j, mappings)])],
              !.start = follow_mappings(@, mappings)]

(***************************************************************************)
(* core/transformation/trim.rs                                              *)
(***************************************************************************)
Store_retain(store, keep) ==
    [store EXCEPT !.map = [id \in (DOMAIN store.map) \cap keep |-> store.map[id]]]

trim_instructions(p) == [p EXCEPT !.instructions = Store_retain(@, Range(walk(p)))]

\* the resource ids the instructions of a kind refer to
extract(p, kind) == {InstructionAt(p, id).x : id \in {j \in Ids(p) : InstructionAt(p, j).k = kind}}

trim(p) ==
    LET q == trim_instructions(p)
    IN [q EXCEPT !.series = Store_retain(@, extract(q, "Series")),
                 !.labels = Store_retain(@, extract(q, "Label")),
                 !.expecteds = Store_retain(@, extract(q, "Error"))]

(***************************************************************************)
(* core/transformation/sort.rs                                              *)
(***************************************************************************)
\* the position of an element in a sequence without repetitions, from 0
IndexOf(q, e) == (CHOOSE i \in 1..Len(q) : q[i] = e) - 1

\* the new store is left with one instruction more than the walk yields: a
\* second copy of the start
sort_instructions_with_leftover(p) ==
    [p EXCEPT !.instructions =
                 Store_from([i \in 1..(Len(walk(p)) + 1) |->
                                remapped(InstructionAt(p, IF i <= Len(walk(p))
                                                          THEN walk(p)[i] ELSE p.start),
                                         [id \in Range(walk(p)) |-> IndexOf(walk(p), id)])]),
              !.start = IndexOf(walk(p), p.start)]

sort_instructions(p) ==
    LET order == walk(p)
        mappings == [id \in Range(order) |-> IndexOf(order, id)]
    IN [p EXCEPT !.instructions =
                    Store_from([i \in 1..Len(order) |->
                                   remapped(InstructionAt(p, order[i]), mappings)]),
                 !.start = mappings[p.start]]

\* the resource ids in the order the walk first meets them
RECURSIVE first_uses(_, _, _, _)
first_uses(p, kind, order, out) ==
    IF order = <<>> THEN out
    ELSE LET i == InstructionAt(p, Head(order))
         IN IF i.k = kind /\ i.x \notin Range(out)
            THEN first_uses(p, kind, Tail(order), Append(out, i.x))
            ELSE first_uses(p, kind, Tail(order), out)

\* sort_resource for the store and the instructions of one kind
sort_resource(p, store, kind) ==
    LET uses == first_uses(p, kind, walk(p), <<>>)
    IN [new_store |-> Store_from([i \in 1..Len(uses) |-> store.map[uses[i]]]),
        instructions |->
            [p.instructions EXCEPT !.map =
                [id \in DOMAIN @ |->
                    IF @[id].k = kind THEN [@[id] EXCEPT !.x = IndexOf(uses, @)] ELSE @[id]]]]

sort(p) ==
    LET p0 == sort_instructions(p)
        r1 == sort_resource(p0, p0.series, "Series")
        p1 == [p0 EXCEPT !.series = r1.new_store, !.instructions = r1.instructions]
        r2 == sort_resource(p1, p1.labels, "Label")
        p2 == [p1 EXCEPT !.labels = r2.new_store, !.instructions = r2.instructions]
        r3 == sort_resource(p2, p2.expecteds, "Error")
    IN [p2 EXCEPT !.expecteds = r3.new_store, !.instructions = r3.instructions]

(***************************************************************************)
(* core/expected.rs, core/transformation/expected_inference.rs              *)
(***************************************************************************)
RECURSIVE linear_series_prefix(_)
linear_series_prefix(series) ==
    IF series = <<>> THEN <<>>
    ELSE LET class == Head(series)
         IN IF class.negated \/ Len(class.ranges) # 1 THEN <<>>
            ELSE IF class.ranges[1][1] # class.ranges[1][2] THEN <<>>
            ELSE <<class.ranges[1][1]>> \o linear_series_prefix(Tail(series))

\* append_series, had it taken only the ranges of one byte
append_series_single_ranges(series) ==
    IF linear_series_prefix(series) # <<>> THEN {linear_series_prefix(series)}
    ELSE IF series # <<>> /\ ~series[1].negated
         THEN {<<series[1].ranges[i][1]>> :
                  i \in {j \in 1..Len(series[1].ranges) :
                            series[1].ranges[j][1] = series[1].ranges[j][2]}}
         ELSE {}

\* the literals Expected::append_series adds
append_series(series) ==
    IF linear_series_prefix(series) # <<>> THEN {linear_series_prefix(series)}
    ELSE IF series # <<>> /\ ~series[1].negated
         THEN {<<char>> : char \in UNION {series[1].ranges[i][1]..series[1].ranges[i][2] :
                                             i \in 1..Len(series[1].ranges)}}
         ELSE {}

EmptyExpected == [labels |-> {}, literals |-> {}]

RECURSIVE expected_at(_, _, _, _)
expected_at(p, id, characters, visited) ==
    IF id \in visited THEN EmptyExpected
    ELSE LET i == InstructionAt(p, id)
             seen == visited \cup {id}
             first == expected_at(p, i.f, characters, seen)
             second == expected_at(p, i.s, characters, seen)
         IN CASE i.k = "Seq" ->
                    IF characters[i.f].transparent
                    THEN [labels |-> first.labels \cup second.labels,
                          literals |-> first.literals \cup second.literals]
                    ELSE first
              [] i.k \in {"Choice", "FirstChoice"} ->
                    [labels |-> first.labels \cup second.labels,
                     literals |-> first.literals \cup second.literals]
              [] i.k \in {"Error", "Delegate", "Cache"} -> first
              [] i.k = "Label" -> [labels |-> {p.labels.map[i.x]}, literals |-> {}]
              [] i.k = "Series" -> [labels |-> {}, literals |-> append_series(p.series.map[i.x])]
              [] i.k = "NotAhead" -> EmptyExpected

compute_expected(p, id, characters) == expected_at(p, id, characters, {})

RECURSIVE infer_loop(_, _, _)
infer_loop(p, ids, characters) ==
    IF ids = <<>> THEN p
    ELSE LET i == InstructionAt(p, Head(ids))
         IN IF i.k = "Error"
            THEN infer_loop(
                     [p EXCEPT !.expecteds = Store_insert(@, compute_expected(p, i.x, characters)),
                               !.instructions =
                                   Store_set(@, Head(ids), Instruction_Error(i.f, p.expecteds.next_id))],
                     Tail(ids), characters)
            ELSE infer_loop(p, Tail(ids), characters)

infer_expecteds(p) == infer_loop(p, ascending(Ids(p)), characterize(p))

(***************************************************************************)
(* core/mod.rs: CompilerSettings; ordered_set.rs                            *)
(***************************************************************************)
\* CompilerSettings::normal(); the passes that test a flag the struct does not
\* declare are taken as enabled
\* let value = ...; body: the value is computed once and the body reads it
Bind(value, body(_)) == body(value)

CompilerSettings_normal == [merge_series |-> TRUE, cache_insertion |-> TRUE]

OrderedSet_push(list, value) == IF value \in Range(list) THEN list ELSE Append(list, value)

RECURSIVE OrderedSet_extend(_, _)
OrderedSet_extend(list, values) ==
    IF values = <<>> THEN list
    ELSE OrderedSet_extend(OrderedSet_push(list, Head(values)), Tail(values))

\* patch_characters: the fixed point resumed from a given map, with only the
\* given instructions queued
patch_characters(p, characters, instructions) ==
    fixed_point_loop(p, [queue |-> FixedPointQueue_insert_all(<<>>, instructions),
                         states |-> [map |-> characters, default |-> DefaultCharacter]])

(***************************************************************************)
(* core/transformation/normalize.rs: State and the passes                   *)
(***************************************************************************)
\* what a pass returns: the state as it left it and Option<Instruction>
Kept(st) == [state |-> st, new |-> None]

Rewritten(st, instruction) == [state |-> st, new |-> Some(instruction)]

\* State::insert; the new id is parser.instructions.next_id before the call
State_insert(st, instruction, predecessors) ==
    LET id == st.parser.instructions.next_id
        p == [st.parser EXCEPT !.instructions = Store_insert(@, instruction)]
    IN [st EXCEPT !.parser = p,
                  !.queue = OrderedSet_push(@, id),
                  !.predecessors =
                      [j \in DOMAIN @ \cup {id} |->
                          IF j = id THEN predecessors
                          ELSE IF j \in Range(successors(instruction)) THEN @[j] \cup {id}
                          ELSE @[j]],
                  !.characters = patch_characters(p, @, <<id>>)]

\* a series added to the series store and the instruction that refers to it
with_series(st, series) ==
    Rewritten([st EXCEPT !.parser.series = Store_insert(@, series)],
              Instruction_Series(st.parser.series.next_id))

choice_like(instruction) == instruction.k \in {"Choice", "FirstChoice"}

\* infallible and without effect
inert(character) ==
    /\ ~character.fallible
    /\ ~character.antitransparent
    /\ ~character.error_prone
    /\ ~character.label_prone

resolve_delegate(st, id, instruction) ==
    IF instruction.k = "Delegate"
    THEN Rewritten(st, InstructionAt(st.parser, instruction.f))
    ELSE Kept(st)

lower_to_first_choice(st, id, instruction) ==
    IF ~choice_like(instruction) THEN Kept(st)
    ELSE LET second == InstructionAt(st.parser, instruction.s)
         IN IF second.k # "Seq" THEN Kept(st)
            ELSE LET second_first == InstructionAt(st.parser, second.f)
                 IN IF second_first.k = "NotAhead" /\ instruction.f = second_first.f
                    THEN Rewritten(st, Instruction_FirstChoice(instruction.f, second.s))
                    ELSE Kept(st)

lower_to_first_choice_without_seq(st, id, instruction) ==
    IF ~choice_like(instruction) THEN Kept(st)
    ELSE LET second == InstructionAt(st.parser, instruction.s)
         IN IF second.k = "NotAhead" /\ instruction.f = second.f
            THEN LET st1 == [st EXCEPT !.parser.series = Store_insert(@, Series_empty)]
                     st2 == State_insert(st1, Instruction_Series(st.parser.series.next_id), {id})
                 IN Rewritten(st2, Instruction_FirstChoice(instruction.f,
                                                           st1.parser.instructions.next_id))
            ELSE Kept(st)

concatenate_series(st, id, instruction) ==
    IF ~st.settings.merge_series \/ instruction.k # "Seq" THEN Kept(st)
    ELSE LET first == InstructionAt(st.parser, instruction.f)
             second == InstructionAt(st.parser, instruction.s)
         IN IF first.k = "Series" /\ second.k = "Series"
            THEN with_series(st, Series_concatenate(st.parser.series.map[first.x],
                                                    st.parser.series.map[second.x]))
            ELSE Kept(st)

merge_series(st, id, instruction) ==
    IF ~st.settings.merge_series \/ ~choice_like(instruction) THEN Kept(st)
    ELSE LET first == InstructionAt(st.parser, instruction.f)
             second == InstructionAt(st.parser, instruction.s)
         IN IF first.k = "Series" /\ second.k = "Series"
            THEN LET new_series == Series_merge(st.parser.series.map[first.x],
                                                st.parser.series.map[second.x])
                 IN IF is_some(new_series) THEN with_series(st, unwrap(new_series))
                    ELSE Kept(st)
            ELSE Kept(st)

replace_by_character(st, id, instruction) ==
    IF instruction.k = "Series" THEN Kept(st)
    ELSE IF inert(st.characters[id]) THEN with_series(st, Series_empty)
    ELSE IF ~possible(st.characters[id]) THEN with_series(st, Series_never)
    ELSE Kept(st)

eliminate_redundant_seqs(st, id, instruction) ==
    IF instruction.k # "Seq" THEN Kept(st)
    ELSE IF inert(st.characters[instruction.f])
         THEN Rewritten(st, InstructionAt(st.parser, instruction.s))
    ELSE IF inert(st.characters[instruction.s])
         THEN Rewritten(st, InstructionAt(st.parser, instruction.f))
    ELSE Kept(st)

eliminate_redundant_choices(st, id, instruction) ==
    IF ~choice_like(instruction) THEN Kept(st)
    ELSE LET left_char == st.characters[instruction.f]
             right_char == st.characters[instruction.s]
             right_reachable == IF instruction.k = "Choice"
                                THEN left_char.fallible \/ left_char.error_prone
                                ELSE left_char.fallible
         IN IF ~right_reachable THEN Rewritten(st, InstructionAt(st.parser, instruction.f))
            ELSE IF ~possible(left_char)
                 THEN Rewritten(st, InstructionAt(st.parser, instruction.s))
            ELSE IF ~possible(right_char)
                 THEN Rewritten(st, InstructionAt(st.parser, instruction.f))
            ELSE Kept(st)

translate_unnecessary_non_first_choice(st, id, instruction) ==
    IF instruction.k = "Choice" /\ ~st.characters[instruction.f].error_prone
    THEN Rewritten(st, Instruction_FirstChoice(instruction.f, instruction.s))
    ELSE Kept(st)

eliminate_double_not_aheads(st, id, instruction) ==
    IF instruction.k # "NotAhead" THEN Kept(st)
    ELSE LET target == InstructionAt(st.parser, instruction.f)
         IN IF target.k # "NotAhead" THEN Kept(st)
            ELSE LET character == st.characters[target.f]
                 IN IF /\ ~character.antitransparent
                       /\ ~character.label_prone
                       /\ ~character.error_prone
                    THEN Rewritten(st, InstructionAt(st.parser, target.f))
                    ELSE Kept(st)

\* the rotation the three order passes share: Op(Op(a, b), c) to Op(a, Op(b, c))
rotate(st, id, instruction, kind) ==
    LET old_junction == InstructionAt(st.parser, instruction.f)
        junction == [k |-> kind, f |-> old_junction.s, s |-> instruction.s, x |-> NoId]
    IN IF \/ InstructionAt(st.parser, old_junction.f).k = kind
          \/ InstructionAt(st.parser, old_junction.s).k = kind
       THEN Kept(st)
       ELSE Rewritten(State_insert(st, junction, {id}),
                      [k |-> kind, f |-> old_junction.f,
                       s |-> st.parser.instructions.next_id, x |-> NoId])

normalize_seq_order(st, id, instruction) ==
    IF instruction.k # "Seq" THEN Kept(st)
    ELSE IF InstructionAt(st.parser, instruction.f).k # "Seq" THEN Kept(st)
    ELSE IF instruction.f = instruction.s THEN Kept(st)
    ELSE rotate(st, id, instruction, "Seq")

normalize_choice_order(st, id, instruction) ==
    IF instruction.k # "Choice" THEN Kept(st)
    ELSE IF InstructionAt(st.parser, instruction.f).k # "Choice" THEN Kept(st)
    ELSE rotate(st, id, instruction, "Choice")

normalize_first_choice_order(st, id, instruction) ==
    IF instruction.k # "FirstChoice" THEN Kept(st)
    ELSE IF InstructionAt(st.parser, instruction.f).k # "FirstChoice" THEN Kept(st)
    ELSE rotate(st, id, instruction, "FirstChoice")

\* STAGES
STAGES ==
    << <<"resolve_delegate", "lower_to_first_choice", "lower_to_first_choice_without_seq">>,
       <<"replace_by_character", "eliminate_redundant_seqs", "eliminate_redundant_choices",
         "translate_unnecessary_non_first_choice", "eliminate_double_not_aheads",
         "concatenate_series", "merge_series">>,
       <<"normalize_seq_order", "normalize_choice_order", "normalize_first_choice_order">> >>

\* the call of one pass of STAGES by its name
pass(name, st, id, instruction) ==
    CASE name = "resolve_delegate" -> resolve_delegate(st, id, instruction)
      [] name = "lower_to_first_choice" -> lower_to_first_choice(st, id, instruction)
      [] name = "lower_to_first_choice_without_seq" ->
             lower_to_first_choice_without_seq(st, id, instruction)
      [] name = "replace_by_character" -> replace_by_character(st, id, instruction)
      [] name = "eliminate_redundant_seqs" -> eliminate_redundant_seqs(st, id, instruction)
      [] name = "eliminate_redundant_choices" -> eliminate_redundant_choices(st, id, instruction)
      [] name = "translate_unnecessary_non_first_choice" ->
             translate_unnecessary_non_first_choice(st, id, instruction)
      [] name = "eliminate_double_not_aheads" -> eliminate_double_not_aheads(st, id, instruction)
      [] name = "concatenate_series" -> concatenate_series(st, id, instruction)
      [] name = "merge_series" -> merge_series(st, id, instruction)
      [] name = "normalize_seq_order" -> normalize_seq_order(st, id, instruction)
      [] name = "normalize_choice_order" -> normalize_choice_order(st, id, instruction)
      [] name = "normalize_first_choice_order" ->
             normalize_first_choice_order(st, id, instruction)

\* State::normalize_instruction: the first pass that returns Some
RECURSIVE normalize_instruction(_, _, _, _)
normalize_instruction(st, id, instruction, passes) ==
    IF passes = <<>> THEN Kept(st)
    ELSE Bind(pass(Head(passes), st, id, instruction),
              LAMBDA r : IF is_some(r.new) THEN r
                         ELSE normalize_instruction(r.state, id, instruction, Tail(passes)))

\* the two loops of run_passes over instruction.successors(): the id is removed
\* from, and then inserted into, the predecessors of the old successors
relink(predecessors, id, instruction) ==
    [j \in DOMAIN predecessors |->
        IF j \in Range(successors(instruction))
        THEN (predecessors[j] \ {id}) \cup {id}
        ELSE predecessors[j]]

\* the while loop of run_passes, then trim
RECURSIVE run_passes_loop(_, _, _)
run_passes_loop(st, passes, modified) ==
    IF st.queue = <<>> THEN [parser |-> trim(st.parser), modified |-> modified]
    ELSE LET id == st.queue[Len(st.queue)]
             popped == [st EXCEPT !.queue = SubSeq(@, 1, Len(@) - 1)]
             instruction == InstructionAt(st.parser, id)
         IN Bind(normalize_instruction(popped, id, instruction, passes),
                 LAMBDA r :
                     IF is_some(r.new) /\ unwrap(r.new) # instruction
                     THEN run_passes_loop(
                              [r.state EXCEPT
                                  !.queue = OrderedSet_push(
                                      OrderedSet_extend(@, ascending(r.state.predecessors[id])),
                                      id),
                                  !.predecessors = relink(@, id, instruction),
                                  !.characters = patch_characters(r.state.parser, @, <<id>>),
                                  !.parser.instructions = Store_set(@, id, unwrap(r.new))],
                              passes, TRUE)
                     ELSE run_passes_loop(r.state, passes, modified))

run_passes(p, settings, passes) ==
    run_passes_loop([parser |-> p,
                     settings |-> settings,
                     queue |-> Reverse(walk(p)),
                     predecessors |-> compute_predecessors(p),
                     characters |-> characterize(p)],
                    passes, FALSE)

\* Parser::normalize: the stages in order, from the first again after a stage
\* that modified the graph
RECURSIVE normalize_from(_, _, _)
normalize_from(p, settings, stage) ==
    IF stage > Len(STAGES) THEN p
    ELSE Bind(run_passes(p, settings, STAGES[stage]),
              LAMBDA r : IF r.modified THEN normalize_from(r.parser, settings, 1)
                         ELSE normalize_from(r.parser, settings, stage + 1))

normalize(p, settings) == normalize_from(p, settings, 1)

(***************************************************************************)
(* core/structure.rs: strongly connected components                         *)
(***************************************************************************)
\* the instructions reachable from an instruction, itself included
reachable(p, id) == Range(walk_loop(p, <<id>>, {}, <<>>))

\* Component: the instructions of a component and the successors outside it
Component(p, id) ==
    LET instructions == {j \in reachable(p, id) : id \in reachable(p, j)}
    IN [instructions |-> instructions,
        successors |-> UNION {Range(successors(InstructionAt(p, j))) : j \in instructions}
                           \ instructions]

\* Components.instruction_components composed with Components.components
separate_components(p) == [id \in Ids(p) |-> Component(p, id)]

(***************************************************************************)
(* core/transformation/deduplication.rs                                     *)
(***************************************************************************)
\* deduplicate_resource: the first id that holds an equal value is canonical
deduplicate_resource(p, store, kind) ==
    LET mappings == [id \in Store_ids(store) |->
                        CHOOSE c \in Store_ids(store) :
                            /\ store.map[c] = store.map[id]
                            /\ \A d \in Store_ids(store) : store.map[d] = store.map[id] => c <= d]
    IN [p EXCEPT !.instructions.map =
           [id \in DOMAIN @ |->
               IF @[id].k = kind THEN [@[id] EXCEPT !.x = mappings[@]] ELSE @[id]]]

\* Instruction::remapped(|id| follow_mappings(id, mappings))
canonical_form(p, instruction, mappings) ==
    remapped(instruction, [j \in Ids(p) |-> follow_mappings(j, mappings)])

RECURSIVE canonicalize_instruction(_, _, _)
canonicalize_instruction(p, id, cs) ==
    IF id \notin cs.unvisited THEN cs
    ELSE LET instruction == InstructionAt(p, id)
             succ == successors(instruction)
             cs0 == [cs EXCEPT !.unvisited = @ \ {id}]
             cs1 == IF Len(succ) >= 1 THEN canonicalize_instruction(p, succ[1], cs0) ELSE cs0
             cs2 == IF Len(succ) >= 2 THEN canonicalize_instruction(p, succ[2], cs1) ELSE cs1
             canonical == canonical_form(p, instruction, cs2.mappings)
         IN IF canonical \in DOMAIN cs2.canonicals
            THEN [cs2 EXCEPT !.mappings = (id :> cs2.canonicals[canonical]) @@ @]
            ELSE [cs2 EXCEPT !.canonicals = (canonical :> id) @@ @]

\* deduplicate_instructions: the search starts at the start of the parser
deduplicate_instructions(p, unvisited, mappings) ==
    canonicalize_instruction(p, p.start,
        [mappings |-> mappings, canonicals |-> <<>>, unvisited |-> unvisited]).mappings

BACKREFERENCE_HASH == <<1, 0>>

INSTRUCTION_HASH == <<1, 1>>

OUTREFERENCE_HASH == <<1, 2>>

\* Hasher::write_u8 and write_usize: what is written, with its width in bytes
write_u8(value) == <<1, value>>

write_usize(value) == <<8, value>>

\* a tag of its own for the kind the match of intrinsic_instruction_hash lacks
first_choice_hash == <<write_u8(7)>>

intrinsic_instruction_hash(instruction) ==
    CASE instruction.k = "Seq" -> <<write_u8(0)>>
      [] instruction.k = "Choice" -> <<write_usize(1)>>
      [] instruction.k = "NotAhead" -> <<write_u8(2)>>
      [] instruction.k = "Error" -> <<write_u8(3), write_usize(instruction.x)>>
      [] instruction.k = "Label" -> <<write_u8(4), write_usize(instruction.x)>>
      [] instruction.k = "Delegate" -> <<write_u8(5)>>
      [] instruction.k = "Series" -> <<write_u8(6), write_usize(instruction.x)>>
      [] instruction.k = "FirstChoice" -> first_choice_hash

\* the successors of an instruction under the mappings, in order
mapped_successors(instruction, mappings) ==
    [i \in 1..Len(successors(instruction)) |->
        follow_mappings(successors(instruction)[i], mappings)]

\* the loop over the successors in create_canonical_hash: an inner successor is
\* queued, an outer one is written at once
RECURSIVE hash_successors(_, _, _, _)
hash_successors(succ, component, stack, stream) ==
    IF succ = <<>> THEN [stack |-> stack, stream |-> stream]
    ELSE IF Head(succ) \in component.instructions
         THEN hash_successors(Tail(succ), component, Append(stack, Head(succ)), stream)
         ELSE hash_successors(Tail(succ), component, stack,
                              stream \o <<OUTREFERENCE_HASH, write_usize(Head(succ))>>)

RECURSIVE hash_loop(_, _, _, _, _, _)
hash_loop(p, stack, backreferences, stream, component, mappings) ==
    IF stack = <<>> THEN stream
    ELSE LET id == stack[Len(stack)]
             rest == SubSeq(stack, 1, Len(stack) - 1)
         IN IF id \in Range(backreferences)
            THEN hash_loop(p, rest, backreferences,
                     stream \o <<BACKREFERENCE_HASH, write_usize(IndexOf(backreferences, id))>>,
                     component, mappings)
            ELSE LET instruction == InstructionAt(p, id)
                     r == hash_successors(mapped_successors(instruction, mappings), component,
                              rest,
                              stream \o <<INSTRUCTION_HASH>>
                                     \o intrinsic_instruction_hash(instruction))
                 IN hash_loop(p, r.stack, Append(backreferences, id), r.stream,
                              component, mappings)

\* the hash is taken to be free of collisions: it is what the hasher was fed
create_canonical_hash(p, start, component, mappings) ==
    hash_loop(p, <<follow_mappings(start, mappings)>>, <<>>, <<>>, component, mappings)

\* the loop over the zipped successors in reassign_component; ok turns FALSE
\* where assert_eq!(source_internal, dest_internal) fails
RECURSIVE reassign_successors(_, _, _, _, _, _)
reassign_successors(source_succ, dest_succ, source_component, dest_component, stack, ok) ==
    IF source_succ = <<>> \/ dest_succ = <<>> THEN [stack |-> stack, ok |-> ok]
    ELSE LET source_internal == Head(source_succ) \in source_component.instructions
             dest_internal == Head(dest_succ) \in dest_component.instructions
         IN reassign_successors(Tail(source_succ), Tail(dest_succ),
                source_component, dest_component,
                IF source_internal /\ dest_internal
                THEN Append(stack, <<Head(source_succ), Head(dest_succ)>>)
                ELSE stack,
                ok /\ (source_internal = dest_internal))

\* the while loop of reassign_component; ok turns FALSE where an assertion fails
RECURSIVE reassign_loop(_, _, _, _, _, _, _, _)
reassign_loop(p, stack, visited, new_mappings, source_component, dest_component, mappings, ok) ==
    IF stack = <<>> \/ ~ok THEN [new_mappings |-> new_mappings, ok |-> ok]
    ELSE LET source_id == stack[Len(stack)][1]
             dest_id == stack[Len(stack)][2]
             rest == SubSeq(stack, 1, Len(stack) - 1)
             source_visited == source_id \in visited
             dest_visited == dest_id \in visited \cup {source_id}
             seen == visited \cup {source_id, dest_id}
         IN IF source_visited # dest_visited
            THEN [new_mappings |-> new_mappings, ok |-> FALSE]
            ELSE IF source_visited \/ dest_visited
            THEN reassign_loop(p, rest, seen, new_mappings,
                               source_component, dest_component, mappings, ok)
            ELSE LET r == reassign_successors(
                              mapped_successors(InstructionAt(p, source_id), mappings),
                              mapped_successors(InstructionAt(p, dest_id), mappings),
                              source_component, dest_component, rest, ok)
                 IN reassign_loop(p, r.stack, seen,
                                  Append(new_mappings, <<source_id, dest_id>>),
                                  source_component, dest_component, mappings, r.ok)

\* HashMap::insert for each pair of a sequence in turn
RECURSIVE insert_pairs(_, _)
insert_pairs(map, pairs) ==
    IF pairs = <<>> THEN map
    ELSE insert_pairs((Head(pairs)[1] :> Head(pairs)[2]) @@ map, Tail(pairs))

reassign_component(p, source_root, source_component, dest_root, dest_component, mappings) ==
    LET r == reassign_loop(p, << <<follow_mappings(source_root, mappings),
                                   follow_mappings(dest_root, mappings)>> >>,
                           {}, <<>>, source_component, dest_component, mappings, TRUE)
    IN [mappings |-> insert_pairs(mappings, r.new_mappings), ok |-> r.ok]

\* deduplicate_component and its loop over the successors of the component;
\* d holds mappings, canonicals, visited and whether no assertion has failed
RECURSIVE deduplicate_component(_, _, _, _)
RECURSIVE deduplicate_successors(_, _, _, _)
deduplicate_successors(p, succ, components, d) ==
    IF succ = <<>> THEN d
    ELSE deduplicate_successors(p, Tail(succ), components,
                                deduplicate_component(p, Head(succ), components, d))

deduplicate_component(p, start, components, d) ==
    LET component == components[start]
    IN IF component.instructions \in d.visited THEN d
       ELSE LET d1 == deduplicate_successors(p, ascending(component.successors), components,
                          [d EXCEPT !.visited = @ \cup {component.instructions}])
                mappings == deduplicate_instructions(p, component.instructions, d1.mappings)
                component_hash == create_canonical_hash(p, start, component, mappings)
            IN IF component_hash \in DOMAIN d1.canonicals
               THEN LET replacement == d1.canonicals[component_hash]
                        r == reassign_component(p, start, component, replacement,
                                                components[replacement], mappings)
                    IN [d1 EXCEPT !.mappings = r.mappings, !.ok = @ /\ r.ok]
               ELSE [d1 EXCEPT
                        !.mappings = mappings,
                        !.canonicals =
                            insert_pairs(@,
                                [i \in 1..Cardinality(component.instructions) |->
                                    <<create_canonical_hash(p,
                                          ascending(component.instructions)[i],
                                          component, mappings),
                                      ascending(component.instructions)[i]>>])]

\* deduplicate_components; panicked where reassign_component asserts
deduplicate_components(p) ==
    LET d == deduplicate_component(p, p.start, separate_components(p),
                 [mappings |-> <<>>, canonicals |-> <<>>, visited |-> {}, ok |-> TRUE])
    IN [parser |-> remap(p, d.mappings), panicked |-> ~d.ok]

deduplicate(p) ==
    LET p1 == deduplicate_resource(p, p.series, "Series")
        p2 == deduplicate_resource(p1, p1.labels, "Label")
        p3 == deduplicate_resource(p2, p2.expecteds, "Error")
        r == deduplicate_components(p3)
    IN [parser |-> trim(r.parser), panicked |-> r.panicked]

(***************************************************************************)
(* core/transformation/cache_insertion.rs                                   *)
(***************************************************************************)
\* the predecessors of each instruction, one entry for each edge
edges_from(p, pred, id) ==
    [i \in 1..Len(SelectSeq(successors(InstructionAt(p, pred)), LAMBDA t : t = id)) |-> pred]

RECURSIVE incoming(_, _, _)
incoming(p, ids, id) ==
    IF ids = <<>> THEN <<>>
    ELSE edges_from(p, Head(ids), id) \o incoming(p, Tail(ids), id)

compute_duplicated_predecessors(p) ==
    [id \in Ids(p) |-> incoming(p, ascending(Ids(p)), id)]

inherent_complexity(instruction) ==
    CASE instruction.k = "Seq" -> SEQ_WORK
      [] instruction.k \in {"Choice", "FirstChoice"} -> CHOICE_WORK
      [] instruction.k = "NotAhead" -> NOT_AHEAD_WORK
      [] instruction.k = "Delegate" -> 0
      [] instruction.k = "Cache" -> CACHE_WORK
      [] instruction.k = "Error" -> MARK_ERROR_WORK
      [] instruction.k = "Label" -> LABEL_WORK
      [] instruction.k = "Series" -> SERIES_WORK

\* Parser::work with complexity_unvisited: None where the search meets a cycle
RECURSIVE Parser_work(_, _, _)
Parser_work(p, id, visited) ==
    IF id \in visited THEN None
    ELSE LET instruction == InstructionAt(p, id)
             seen == visited \cup {id}
         IN IF instruction.k \in {"Cache", "Series"}
            THEN Some(inherent_complexity(instruction))
            ELSE LET first == Parser_work(p, instruction.f, seen)
                 IN IF is_none(first) THEN None
                    ELSE IF instruction.k \in BinaryKinds
                    THEN LET second == Parser_work(p, instruction.s, seen)
                         IN IF is_none(second) THEN None
                            ELSE Some(unwrap(first) + unwrap(second)
                                      + inherent_complexity(instruction))
                    ELSE Some(unwrap(first) + inherent_complexity(instruction))

\* an instruction is wrapped only where its work has a bound
wrapped_only_bounded(p, id, predecessors) ==
    /\ InstructionAt(p, id).k # "Cache"
    /\ Len(predecessors[id]) >= 2
    /\ LET w == Parser_work(p, id, {})
       IN is_some(w) /\ unwrap(w) > MAX_UNCACHED_WORK

\* whether insert_cache_points wraps the instruction
wrapped(p, id, predecessors) ==
    /\ InstructionAt(p, id).k # "Cache"
    /\ Len(predecessors[id]) >= 2
    /\ LET w == Parser_work(p, id, {})
       IN is_none(w) \/ unwrap(w) > MAX_UNCACHED_WORK

\* the loop over the predecessors: each has its edges to id moved to new_id
RECURSIVE redirect(_, _, _, _)
redirect(instructions, preds, id, new_id) ==
    IF preds = <<>> THEN instructions
    ELSE redirect(
             Store_set(instructions, Head(preds),
                 remapped(instructions.map[Head(preds)],
                          [j \in Store_ids(instructions) |-> IF j = id THEN new_id ELSE j])),
             Tail(preds), id, new_id)

RECURSIVE insert_loop(_, _, _)
insert_loop(p, ids, predecessors) ==
    IF ids = <<>> THEN p
    ELSE IF wrapped(p, Head(ids), predecessors)
         THEN insert_loop(
                  [p EXCEPT !.instructions =
                      redirect(Store_insert(@, Instruction_Cache(Head(ids), NoId)),
                               predecessors[Head(ids)], Head(ids), @.next_id)],
                  Tail(ids), predecessors)
         ELSE insert_loop(p, Tail(ids), predecessors)

insert_cache_points(p) ==
    insert_loop(p, Reverse(walk(p)), compute_duplicated_predecessors(p))

(***************************************************************************)
(* Parser::load after load_ir: characterize, then validate                  *)
(***************************************************************************)
InterpIdle ==
    /\ input = <<>>
    /\ position = 0
    /\ state_stack = <<>>
    /\ result_stack = <<>>
    /\ cache = <<>>
    /\ outcome = Uninit
    /\ start_stack = <<>>
    /\ stored = <<>>
    /\ hits = 0

InitLoad ==
    /\ parser \in AllGrammars
    /\ pc = "characterize"
    /\ queue = fixed_point_seed(parser)
    /\ states = FixedPointStates_new(DefaultCharacter)
    /\ reevaluated = FALSE
    /\ cursor = <<>>
    /\ errors = {}
    /\ verdict = "none"
    /\ InterpIdle
    /\ PipelineIdle
    /\ AlgebraIdle

\* one iteration of the while loop of solve_fixed_point
FixStep ==
    /\ pc = "characterize"
    /\ queue # <<>>
    /\ \E order \in Orders(compute_predecessors(parser)[queue[Len(queue)]]) :
          LET fp == fixed_point_step(parser, [queue |-> queue, states |-> states], order)
          IN /\ queue' = fp.queue
             /\ states' = fp.states
    /\ reevaluated' = (reevaluated \/ queue[Len(queue)] \in DOMAIN states.map)
    /\ UNCHANGED <<pc, parser, cursor, errors, verdict, interpVars, pipelineVars, algebraVars>>

\* solve_fixed_point returns states.map; validate starts its loop over the store
FixDone ==
    /\ pc = "characterize"
    /\ queue = <<>>
    /\ pc' = "validate"
    /\ cursor' = ascending(Ids(parser))
    /\ UNCHANGED <<parser, queue, states, reevaluated, errors, verdict, interpVars, pipelineVars, algebraVars>>

\* one iteration of the for loop of validate
ValidateStep ==
    /\ pc = "validate"
    /\ cursor # <<>>
    /\ errors' = IF can_reach(parser, Head(cursor), Head(cursor), {}, states.map)
                 THEN errors \cup {Head(cursor)}
                 ELSE errors
    /\ cursor' = Tail(cursor)
    /\ UNCHANGED <<pc, parser, queue, states, reevaluated, verdict, interpVars, pipelineVars, algebraVars>>

\* load: Err(LeftRecursive) when validate returned errors
LoadReturn ==
    /\ pc = "validate"
    /\ cursor = <<>>
    /\ verdict' = IF errors # {} THEN "LeftRecursive" ELSE "Ok"
    /\ pc' = "loaded"
    /\ UNCHANGED <<parser, queue, states, reevaluated, cursor, errors, interpVars, pipelineVars, algebraVars>>

NextLoad == FixStep \/ FixDone \/ ValidateStep \/ LoadReturn

SpecLoad == InitLoad /\ [][NextLoad]_vars

SpecLoadFair == InitLoad /\ [][NextLoad]_vars /\ WF_vars(NextLoad)

\* the potential left-edges of the graph under the computed characters
LeftEdges ==
    LET ch == states.map
    IN UNION {
        LET i == InstructionAt(parser, id)
        IN CASE i.k = "Seq" ->
                    {<<id, i.f>>} \cup (IF ch[i.f].transparent THEN {<<id, i.s>>} ELSE {})
             [] i.k = "Choice" ->
                    {<<id, i.f>>} \cup (IF ch[i.f].fallible \/ ch[i.f].error_prone
                                        THEN {<<id, i.s>>} ELSE {})
             [] i.k = "FirstChoice" ->
                    {<<id, i.f>>} \cup (IF ch[i.f].fallible THEN {<<id, i.s>>} ELSE {})
             [] i.k \in UnaryKinds -> {<<id, i.f>>}
             [] i.k = "Series" -> {}
        : id \in Ids(parser)}

RECURSIVE closure(_, _)
closure(edges, S) ==
    LET next == S \cup {e[2] : e \in {d \in edges : d[1] \in S}}
    IN IF next = S THEN S ELSE closure(edges, next)

\* there is a non-empty path of left-edges from id back to id
OnLeftCycle(id) == id \in closure(LeftEdges, {e[2] : e \in {d \in LeftEdges : d[1] = id}})

\* C5: validate reports LeftRecursion(i) exactly for the instructions on a
\* cycle of potential left-edges, and load returns LeftRecursive whenever an
\* instruction was reported
C5_LeftRecursionExactlyOnLeftCycles ==
    /\ pc \in {"validate", "loaded"} =>
          \A id \in Ids(parser) \ Range(cursor) : (id \in errors) <=> OnLeftCycle(id)
    /\ pc = "loaded" => (errors # {} => verdict = "LeftRecursive")

\* load rejected a grammar whose only left cycle runs through the second
\* operand of a sequence with a transparent first
C5_Witness ==
    /\ pc = "loaded"
    /\ parser = TransparentLoopGrammar
    /\ errors = {0}
    /\ verdict = "LeftRecursive"

Stable ==
    \A id \in Ids(parser) :
        /\ id \in DOMAIN states.map
        /\ states.map[id] = evaluate(parser, InstructionAt(parser, id), states)

\* C10: the worklist empties on every graph, and when it has, every
\* instruction's character equals its rule applied to its successors' characters
C10_WorklistConverges ==
    /\ <>(pc # "characterize")
    /\ [](pc # "characterize" => Stable)

\* the worklist emptied on a cyclic graph after re-evaluating an instruction
C10_Witness ==
    /\ pc = "validate"
    /\ parser = StarGrammar
    /\ reevaluated
    /\ states.map[0].transparent /\ states.map[0].antitransparent

(***************************************************************************)
(* runtime/result.rs, runtime/mod.rs: what a visitor sees of a match        *)
(***************************************************************************)
\* Walk: the Enter and Exit items of a node and of all below it, in order
RECURSIVE Walk(_, _)
RECURSIVE Walk_children(_, _)
Walk_children(children, base_position) ==
    IF children = <<>> THEN <<>>
    ELSE Walk(Head(children)[2], base_position + Head(children)[1])
         \o Walk_children(Tail(children), base_position)

Walk(node, base_position) ==
    <<[state |-> "Enter", position |-> base_position, node |-> node]>>
    \o Walk_children(node.children, base_position)
    \o <<[state |-> "Exit", position |-> base_position + node.distance, node |-> node]>>

\* GenParseMatch::new: the root has no grouping
GenParseMatch_new(node) == IF node.grouping # GroupingNone THEN Match_wrap(node) ELSE node

\* the call GenCursor::visit makes on the visitor for one item of the walk
visitor_call(item, p) ==
    IF item.node.grouping.kind = "Label"
    THEN <<IF item.state = "Enter" THEN "enter" ELSE "exit",
           p.labels.map[item.node.grouping.v], item.position, item.node.distance,
           is_some(item.node.error_distance)>>
    ELSE <<IF item.state = "Enter" THEN "enter_error" ELSE "exit_error",
           p.expecteds.map[item.node.grouping.v], item.position, item.node.distance>>

\* GenParseMatch::visit with a visitor that always continues: its calls in order
visit(node, p) ==
    LET items == SelectSeq(Walk(GenParseMatch_new(node), 0),
                           LAMBDA item : item.node.grouping.kind # "None")
    IN [i \in 1..Len(items) |-> visitor_call(items[i], p)]

\* what a caller can tell of a parse: work and scan_distance left out
Observed(r, p) ==
    IF is_match(r)
    THEN [matched |-> TRUE, distance |-> r.distance,
          error_distance |-> r.error_distance, calls |-> visit(r, p)]
    ELSE [matched |-> FALSE, distance |-> 0, error_distance |-> None, calls |-> <<>>]

(***************************************************************************)
(* Parser::transform, and the parses of one input with the graph before the *)
(* optimising passes, with the graph transform returns when cache_insertion *)
(* is off, and with the graph it returns under CompilerSettings::normal()   *)
(***************************************************************************)
OPT_PASSES == 2

\* [^a] | [^b]
NegatedChoiceGrammar ==
    Grammar(<<Instruction_Choice(1, 2), Instruction_Series(3), Instruction_Series(4)>>)

\* (C a) | (C b) with C a chain of five labels over a, reached through a delegate
SharedLabelGrammar ==
    Grammar(<<Instruction_Choice(1, 2), Instruction_Seq(3, 4), Instruction_Seq(3, 5),
              Instruction_Delegate(6), Instruction_Series(1), Instruction_Series(2),
              Instruction_Label(7, 0), Instruction_Label(8, 1), Instruction_Label(9, 0),
              Instruction_Label(10, 1), Instruction_Label(11, 0), Instruction_Series(1)>>)

\* (C a) | (C b) with C a chain of errors and a label over [^a]
SharedErrorGrammar ==
    Grammar(<<Instruction_Choice(1, 2), Instruction_Seq(3, 4), Instruction_Seq(3, 5),
              Instruction_Delegate(6), Instruction_Series(1), Instruction_Series(2),
              Instruction_Error(7, 0), Instruction_Error(8, 1), Instruction_Error(9, 0),
              Instruction_Error(10, 1), Instruction_Label(11, 0), Instruction_Series(3)>>)

\* X X with X = (a X) | empty
SharedLoopGrammar ==
    Grammar(<<Instruction_Seq(1, 1), Instruction_Choice(2, 3), Instruction_Seq(4, 1),
              Instruction_Series(0), Instruction_Series(1)>>)

\* A | A' with A = a (A | E), A' = a (E | A') and E = Error(empty)
MirroredLoopsGrammar ==
    Grammar(<<Instruction_Choice(1, 3), Instruction_Seq(5, 2), Instruction_Choice(1, 6),
              Instruction_Seq(5, 4), Instruction_Choice(6, 3), Instruction_Series(1),
              Instruction_Error(7, 0), Instruction_Series(0)>>)

\* (A B) | (B A) with A a chain of five labels over a and B one over b
TwoSharedChainsGrammar ==
    Grammar(<<Instruction_Choice(1, 2), Instruction_Seq(3, 9), Instruction_Seq(9, 3),
              Instruction_Label(4, 0), Instruction_Label(5, 1), Instruction_Label(6, 0),
              Instruction_Label(7, 1), Instruction_Label(8, 0), Instruction_Series(1),
              Instruction_Label(10, 0), Instruction_Label(11, 1), Instruction_Label(12, 0),
              Instruction_Label(13, 1), Instruction_Label(14, 0), Instruction_Series(2)>>)

PipelineCatalogue ==
    {NegatedChoiceGrammar, SharedLabelGrammar, SharedErrorGrammar, SharedLoopGrammar,
     MirroredLoopsGrammar, TwoSharedChainsGrammar}

\* the kinds the IR holds: FirstChoice and Cache come only from the passes
IRKinds == {"Seq", "Choice", "NotAhead", "Error", "Label", "Delegate", "Series"}

\* what load leaves of a grammar: every expected id is still an instruction id
Loaded(g) == [g EXCEPT !.expecteds = Store_new]

LoadedGrammars ==
    {Loaded(g) : g \in {h \in AllGrammars \cup PipelineCatalogue :
                           /\ \A id \in Ids(h) : InstructionAt(h, id).k \in IRKinds
                           /\ validate(h) = {}}}

InitOpt ==
    /\ parser \in LoadedGrammars
    /\ pc = "infer_expecteds"
    /\ InterpIdle
    /\ AnalysisIdle
    /\ PipelineIdle
    /\ AlgebraIdle

\* a step of transform that rewrites the parser and goes on to the next
Step(here, p, next) ==
    /\ pc = here
    /\ parser' = p
    /\ pc' = next
    /\ UNCHANGED <<interpVars, analysisVars, algebraVars, uncached, results, phase, round>>

InferExpecteds ==
    /\ Step("infer_expecteds", infer_expecteds(parser), "trim")
    /\ UNCHANGED original

Trim ==
    /\ Step("trim", trim(parser), "sort")
    /\ UNCHANGED original

\* the graph as the optimising passes find it is kept for the comparison
Sort ==
    /\ Step("sort", sort(parser), "normalize")
    /\ original' = sort(parser)

Normalize ==
    /\ Step("normalize", normalize(parser, CompilerSettings_normal), "deduplicate")
    /\ UNCHANGED original

\* deduplicate, the end of one round of the for loop; transform panics where
\* reassign_component asserts
Deduplicate ==
    /\ pc = "deduplicate"
    /\ LET r == deduplicate(parser)
       IN IF r.panicked
          THEN /\ pc' = "panicked"
               /\ UNCHANGED <<parser, round>>
          ELSE /\ parser' = r.parser
               /\ round' = round + 1
               /\ pc' = IF round + 1 < OPT_PASSES THEN "normalize" ELSE "insert_cache_points"
    /\ UNCHANGED <<interpVars, analysisVars, algebraVars, original, uncached, results, phase>>

\* if settings.cache_insertion; what the other branch goes on to return is kept
InsertCachePoints ==
    /\ pc = "insert_cache_points"
    /\ CompilerSettings_normal.cache_insertion
    /\ parser' = insert_cache_points(parser)
    /\ uncached' = sort(assign_cache_ids(parser))
    /\ pc' = "assign_cache_ids"
    /\ UNCHANGED <<interpVars, analysisVars, algebraVars, original, results, phase, round>>

AssignCacheIds ==
    /\ Step("assign_cache_ids", assign_cache_ids(parser), "final_sort")
    /\ UNCHANGED original

FinalSort ==
    /\ Step("final_sort", sort(parser), "transformed")
    /\ UNCHANGED original

\* Context::run on a graph
Run(g, in) ==
    LET c == Context_new(in, StateOf(g.start, 0), cache_slots(g))
    IN /\ parser' = g
       /\ input' = in
       /\ position' = c.position
       /\ state_stack' = c.state_stack
       /\ result_stack' = c.result_stack
       /\ cache' = c.cache
       /\ outcome' = Uninit
       /\ start_stack' = <<0, 0>>
       /\ stored' = <<>>
       /\ hits' = 0
       /\ pc' = "run"

\* an input is parsed with the optimised graph
Parse ==
    /\ pc = "transformed"
    /\ \E in \in Inputs : Run(parser, in)
    /\ phase' = "optimised"
    /\ UNCHANGED <<analysisVars, algebraVars, original, uncached, results, round>>

\* the same input is parsed with the next graph, and then the parses are done
ParseNext ==
    /\ pc = "done"
    /\ phase \in {"optimised", "uncached", "original"}
    /\ results' = (phase :> [parse |-> Observed(outcome, parser), hits |-> hits]) @@ results
    /\ CASE phase = "optimised" -> Run(uncached, input) /\ phase' = "uncached"
         [] phase = "uncached" -> Run(original, input) /\ phase' = "original"
         [] phase = "original" ->
                /\ pc' = "compared"
                /\ phase' = "idle"
                /\ UNCHANGED <<parser, interpVars>>
    /\ UNCHANGED <<analysisVars, algebraVars, original, uncached, round>>

NextOpt ==
    \/ InferExpecteds \/ Trim \/ Sort \/ Normalize \/ Deduplicate
    \/ InsertCachePoints \/ AssignCacheIds \/ FinalSort
    \/ Parse \/ InterpStep \/ Finish \/ ParseNext

SpecOpt == InitOpt /\ [][NextOpt]_vars

\* C1: the parse with the graph before the optimising passes and the parse
\* with the graph after them are both Matched or both Unmatched, of the same
\* distance, and make the same calls on a visitor
C1_OptimisedParsesAsOriginal ==
    pc = "compared" =>
        /\ results["original"].parse.matched = results["optimised"].parse.matched
        /\ results["original"].parse.distance = results["optimised"].parse.distance
        /\ results["original"].parse.calls = results["optimised"].parse.calls

\* C4: the parse with cache insertion on and the parse with it off agree on
\* Matched or Unmatched, distance, error_distance and the calls on a visitor
C4_CacheInsertionKeepsParses ==
    pc = "compared" => results["uncached"].parse = results["optimised"].parse

\* cache insertion wrapped an instruction, the parse with it took a result from
\* the cache, and the result has labels for a visitor to see
C4_Witness ==
    /\ pc = "compared"
    /\ results["optimised"].hits > 0
    /\ results["uncached"].hits = 0
    /\ results["optimised"].parse.matched
    /\ results["optimised"].parse.calls # <<>>

(***************************************************************************)
(* The graph transform returns                                              *)
(***************************************************************************)
\* the least set of ids that holds the ids of S and the successors of its members
RECURSIVE Closure(_, _)
Closure(p, S) ==
    LET T == S \cup UNION {Range(successors(InstructionAt(p, id))) : id \in S \cap Ids(p)}
    IN IF T = S THEN S ELSE Closure(p, T)

\* every id an instruction refers to is in the store it refers into
ReferencesExist(p, id) ==
    /\ Range(successors(InstructionAt(p, id))) \subseteq Ids(p)
    /\ InstructionAt(p, id).k = "Series" => InstructionAt(p, id).x \in Store_ids(p.series)
    /\ InstructionAt(p, id).k = "Label" => InstructionAt(p, id).x \in Store_ids(p.labels)
    /\ InstructionAt(p, id).k = "Error" => InstructionAt(p, id).x \in Store_ids(p.expecteds)

KindsOf(p) == {InstructionAt(p, id).k : id \in Ids(p)}

\* C11: when transform has returned, every instruction of the store is
\* reachable from start, and every successor, series, label and expected an
\* instruction refers to exists in its store
C11_TransformedIsClosed ==
    pc = "transformed" =>
        /\ parser.start \in Ids(parser)
        /\ Ids(parser) \subseteq Closure(parser, {parser.start})
        /\ \A id \in Ids(parser) : ReferencesExist(parser, id)

\* a transformed graph with a cache point, a label and a series in it
C11_Witness ==
    /\ pc = "transformed"
    /\ {"Cache", "Label", "Series"} \subseteq KindsOf(parser)
    /\ Cardinality(Ids(parser)) >= 4
    /\ \A id \in Ids(parser) : ReferencesExist(parser, id)

(***************************************************************************)
(* deduplicate applied twice                                                *)
(***************************************************************************)
\* the graphs deduplicate is given: a loaded grammar once its expecteds are
\* inferred, and the same after trim, sort and normalize
\* V = X U, W = X U, U = V | W, U' = W | W and X = a U', with V the start: a
\* loop through V, X, U', W and U in which V and W are equal from the outset
TwinLoopGrammar ==
    Grammar(<<Instruction_Seq(1, 2), Instruction_Seq(5, 4), Instruction_Choice(0, 3),
              Instruction_Seq(1, 2), Instruction_Choice(3, 3), Instruction_Series(1)>>)

DeduplicateInputs ==
    {infer_expecteds(g) : g \in LoadedGrammars \cup {Loaded(TwinLoopGrammar)}}
        \cup {normalize(sort(trim(infer_expecteds(g))), CompilerSettings_normal) :
                 g \in LoadedGrammars}

InitDedup ==
    /\ parser \in DeduplicateInputs
    /\ pc = "loaded"
    /\ InterpIdle
    /\ AnalysisIdle
    /\ PipelineIdle
    /\ AlgebraIdle

\* deduplicate; the graph it was given is kept in original
DeduplicateOnce ==
    /\ pc = "loaded"
    /\ \E r \in {deduplicate(parser)} :
          /\ parser' = IF r.panicked THEN parser ELSE r.parser
          /\ pc' = IF r.panicked THEN "panicked" ELSE "deduplicated"
    /\ original' = parser
    /\ UNCHANGED <<interpVars, analysisVars, algebraVars, uncached, results, phase, round>>

\* deduplicate on the graph deduplicate returned
DeduplicateAgain ==
    /\ pc = "deduplicated"
    /\ \E r \in {deduplicate(parser)} :
          /\ parser' = IF r.panicked THEN parser ELSE r.parser
          /\ pc' = IF r.panicked THEN "panicked_again" ELSE "deduplicated_twice"
    /\ UNCHANGED <<interpVars, analysisVars, algebraVars, pipelineVars>>

NextDedup == DeduplicateOnce \/ DeduplicateAgain

SpecDedup == InitDedup /\ [][NextDedup]_vars

\* C12: deduplicate applied to the graph deduplicate returned returns, and
\* leaves the instructions, the start and the series, label and expected
\* stores as they are
C12_DeduplicateIsIdempotent ==
    [][pc = "deduplicated" => (pc' = "deduplicated_twice" /\ parser' = parser)]_vars

(***************************************************************************)
(* The order sort gives                                                     *)
(***************************************************************************)
\* depth-first search by recursion: an instruction is listed when it is first
\* visited, and its first successor is explored before its second
RECURSIVE Preorder(_, _, _)
RECURSIVE PreorderAll(_, _, _)
PreorderAll(p, ids, out) ==
    IF ids = <<>> THEN out
    ELSE PreorderAll(p, Tail(ids), Preorder(p, Head(ids), out))

Preorder(p, id, out) ==
    IF id \in Range(out) THEN out
    ELSE PreorderAll(p, successors(InstructionAt(p, id)), Append(out, id))

\* the resource an instruction refers to, None for an instruction without one
ResourceOf(p, instruction) ==
    CASE instruction.k = "Series" -> Some(p.series.map[instruction.x])
      [] instruction.k = "Label" -> Some(p.labels.map[instruction.x])
      [] instruction.k = "Error" -> Some(p.expecteds.map[instruction.x])
      [] OTHER -> None

\* new is old renumbered along order: the instruction of id i is the one
\* order lists at i, with the same kind, the same cache slot, successors
\* renumbered in the same way and a resource of the same value
RenumberedAlong(old, new, order) ==
    /\ Ids(new) = 0..(Len(order) - 1)
    /\ new.start = IndexOf(order, old.start)
    /\ \A i \in 1..Len(order) :
          /\ InstructionAt(new, i - 1).k = InstructionAt(old, order[i]).k
          /\ Len(successors(InstructionAt(new, i - 1)))
                 = Len(successors(InstructionAt(old, order[i])))
          /\ \A j \in 1..Len(successors(InstructionAt(old, order[i]))) :
                successors(InstructionAt(new, i - 1))[j]
                    = IndexOf(order, successors(InstructionAt(old, order[i]))[j])
          /\ ResourceOf(new, InstructionAt(new, i - 1))
                 = ResourceOf(old, InstructionAt(old, order[i]))
          /\ InstructionAt(old, order[i]).k = "Cache"
                 => InstructionAt(new, i - 1).x = InstructionAt(old, order[i]).x

\* C13: sort leaves the start with id 0 and the ids 0..n-1, the ids in
\* increasing order are the first-visit depth-first order from the start with
\* the first successor explored before the second, and the graph is the graph
\* before sort renumbered
C13_SortGivesDepthFirstOrder ==
    [][(pc \in {"sort", "final_sort"}) =>
          ((parser'.start = 0)
           /\ (Preorder(parser', parser'.start, <<>>)
                   = [i \in 1..Cardinality(Ids(parser')) |-> i - 1])
           /\ RenumberedAlong(parser, parser', Preorder(parser, parser.start, <<>>)))]_vars

\* sort has returned a graph where an inserted cache point, appended to the
\* store by insert, has an id below that of another instruction
C13_Witness ==
    /\ pc = "transformed"
    /\ \E id \in Ids(parser) :
          /\ InstructionAt(parser, id).k = "Cache"
          /\ id + 1 \in Ids(parser)
    /\ \E id \in Ids(parser) : Len(successors(InstructionAt(parser, id))) = 2

(***************************************************************************)
(* The slots assign_cache_ids gives                                         *)
(***************************************************************************)
CacheIds(p) == {id \in Ids(p) : InstructionAt(p, id).k = "Cache"}

\* C14: once assign_cache_ids has run, every Cache has a slot, no two Caches
\* have the same slot, the slots are 0..k-1 for the k Caches of the graph, and
\* no slot is greater than the number of slots the interpreter's cache is made with
C14_SlotsAreDenseAndUnique ==
    pc \in {"final_sort", "transformed"} =>
        /\ \A id \in CacheIds(parser) : InstructionAt(parser, id).x # NoId
        /\ \A a, b \in CacheIds(parser) :
              InstructionAt(parser, a).x = InstructionAt(parser, b).x => a = b
        /\ {InstructionAt(parser, id).x : id \in CacheIds(parser)}
               = 0..(Cardinality(CacheIds(parser)) - 1)
        /\ \A id \in CacheIds(parser) :
              /\ InstructionAt(parser, id).x <= cache_slots(parser)
              /\ InstructionAt(parser, id).x \in DOMAIN Cache_new(cache_slots(parser))

\* assign_cache_ids has run on a graph with two cache points
C14_Witness ==
    /\ pc = "final_sort"
    /\ Cardinality(CacheIds(parser)) >= 2

(***************************************************************************)
(* core/series.rs driven through its public functions: a class is built    *)
(* from Class::new by insert, remove and union, a series from              *)
(* Series::empty by append, concatenate and merge                           *)
(***************************************************************************)
\* the longest series the model appends or concatenates
MaxClasses == 2

\* the ends of the ranges the model inserts and removes
RangeEnds == {U8_MIN, 97, 98, U8_MAX}

RangeArgs == {<<start, end>> : start \in RangeEnds, end \in RangeEnds} \ 
                 {<<start, end>> \in RangeEnds \X RangeEnds : start > end}

\* a, b, [^a], [^b], [a-b], nothing, [^\x00-\xff], [^] and the class
\* Class::new(true) becomes by insert(0, 97) and insert(98, 255)
ClassArgs ==
    {Lit(97), Lit(98), NotLit(97), NotLit(98),
     [negated |-> FALSE, ranges |-> << <<97, 98>> >>],
     Class_new(FALSE),
     [negated |-> TRUE, ranges |-> << <<U8_MIN, U8_MAX>> >>],
     Class_new(TRUE),
     Class_insert(Class_insert(Class_new(TRUE), U8_MIN, 97), 98, U8_MAX)}

\* the series Series::append builds from those classes
SeriesArgs ==
    {Series_empty}
        \cup {Series_append(Series_empty, c) : c \in ClassArgs}
        \cup {Series_append(Series_append(Series_empty, c), d) : c \in ClassArgs, d \in ClassArgs}

\* the class or series in hand: what the last operation left
InHand ==
    IF operands.op = "merge"
    THEN IF is_some(answer) THEN unwrap(answer) ELSE operands.args[1]
    ELSE answer

InitSeries ==
    /\ pc = "ready"
    /\ parser = <<>>
    /\ InterpIdle
    /\ AnalysisIdle
    /\ PipelineIdle
    /\ AlgebraIdle

\* an operation on the value in hand, its arguments and what it returned
Applied(kind, op, args, out) ==
    /\ pc' = kind
    /\ operands' = [op |-> op, args |-> args]
    /\ answer' = out
    /\ UNCHANGED <<parser, interpVars, analysisVars, pipelineVars, tree_walk, callbacks, keyed, issued, pass_state>>

ClassNew ==
    /\ pc = "ready"
    /\ \E negated \in BOOLEAN : Applied("class", "new", <<negated>>, Class_new(negated))

ClassInsert ==
    /\ pc = "class"
    /\ \E r \in RangeArgs :
          Applied("class", "insert", <<InHand, r[1], r[2]>>, Class_insert(InHand, r[1], r[2]))

ClassRemove ==
    /\ pc = "class"
    /\ \E r \in RangeArgs :
          Applied("class", "remove", <<InHand, r[1], r[2]>>, Class_remove(InHand, r[1], r[2]))

ClassUnion ==
    /\ pc = "class"
    /\ \E c \in ClassArgs : Applied("class", "union", <<InHand, c>>, Class_union(InHand, c))

SeriesEmpty ==
    /\ pc = "ready"
    /\ Applied("series", "empty", <<>>, Series_empty)

SeriesAppend ==
    /\ pc = "series"
    /\ Len(InHand) < MaxClasses
    /\ \E c \in ClassArgs : Applied("series", "append", <<InHand, c>>, Series_append(InHand, c))

SeriesConcatenate ==
    /\ pc = "series"
    /\ \E y \in SeriesArgs :
          /\ Len(InHand) + Len(y) <= MaxClasses
          /\ Applied("series", "concatenate", <<InHand, y>>, Series_concatenate(InHand, y))

SeriesMerge ==
    /\ pc = "series"
    /\ \E y \in SeriesArgs : Applied("series", "merge", <<InHand, y>>, Series_merge(InHand, y))

NextSeries ==
    \/ ClassNew \/ ClassInsert \/ ClassRemove \/ ClassUnion
    \/ SeriesEmpty \/ SeriesAppend \/ SeriesConcatenate \/ SeriesMerge

SpecSeries == InitSeries /\ [][NextSeries]_vars

\* the bytes that tell apart any two classes with ends in RangeEnds
ProbeBytes == {U8_MIN, U8_MIN + 1, 96, 97, 98, 99, U8_MAX - 1, U8_MAX}

ProbeStrings == SeqsUpTo(ProbeBytes, MaxClasses)

\* a series matches a byte string: class by class, as the emitted class
\* functions decide
Matches(series, bytes) ==
    /\ Len(bytes) = Len(series)
    /\ \A i \in 1..Len(series) : class_fn(series[i], bytes[i])

\* C15: a series Series::merge returns matches a byte string exactly when one
\* of the two merged series matches it
C15_MergeIsUnion ==
    (pc = "series" /\ operands.op = "merge" /\ is_some(answer)) =>
        \A bytes \in ProbeStrings :
            Matches(unwrap(answer), bytes)
                <=> (Matches(operands.args[1], bytes) \/ Matches(operands.args[2], bytes))

\* the ranges are sorted by start and no range overlaps or touches the next
Coalesced(ranges) ==
    \A i \in 1..(Len(ranges) - 1) : ranges[i][2] + 1 < ranges[i + 1][1]

\* C16: after Class::insert, Class::remove and Class::union the ranges of the
\* class are sorted by start and no two of them overlap or touch
C16_ClassIsCanonical ==
    (pc = "class" /\ operands.op \in {"insert", "remove", "union"}) =>
        Coalesced(answer.ranges)

\* the class matches no byte, as the emitted class function decides
MatchesNoByte(class) == \A char \in U8_MIN..U8_MAX : ~class_fn(class, char)

\* the series an operation on series returned, if it returned one
Produced ==
    IF operands.op = "merge"
    THEN IF is_some(answer) THEN unwrap(answer) ELSE Series_empty
    ELSE answer

\* C17: a series returned by append, concatenate or merge that holds a class
\* matching no byte is the canonical never-series
C17_NeverIsCanonical ==
    (pc = "series" /\ operands.op \in {"append", "concatenate", "merge"}) =>
        ((\E i \in 1..Len(Produced) : MatchesNoByte(Produced[i])) => Produced = Series_never)

(***************************************************************************)
(* core/expected.rs: Expected::append_series on the series of a grammar     *)
(***************************************************************************)
\* the longest series expected inference is given
MaxLiteral == 3

RECURSIVE SeriesUpTo(_)
SeriesUpTo(n) ==
    IF n = 0 THEN {Series_empty}
    ELSE SeriesUpTo(n - 1)
            \cup {Series_append(series, c) : series \in SeriesUpTo(n - 1), c \in ClassArgs}

InitExpected ==
    /\ pc = "inferring"
    /\ parser = <<>>
    /\ InterpIdle
    /\ AnalysisIdle
    /\ PipelineIdle
    /\ answer = <<>>
    /\ VisitIdle
    /\ \E series \in SeriesUpTo(MaxLiteral) :
          operands = [op |-> "append_series", args |-> <<series>>]

\* expected_at reaches Instruction::Series: result.append_series(series) on
\* the empty Expected compute_expected starts from
AppendSeries ==
    /\ pc = "inferring"
    /\ pc' = "expected"
    /\ answer' = [EmptyExpected EXCEPT !.literals = @ \cup append_series(operands.args[1])]
    /\ UNCHANGED <<parser, interpVars, analysisVars, pipelineVars, operands, tree_walk, callbacks, keyed, issued, pass_state>>

NextExpected == AppendSeries

SpecExpected == InitExpected /\ [][NextExpected]_vars

\* the class is one byte: not negated, one range, both ends equal
SingleByte(class) ==
    /\ ~class.negated
    /\ Len(class.ranges) = 1
    /\ class.ranges[1][1] = class.ranges[1][2]

\* how many classes at the head of the series are one byte each
SingleBytePrefix(series) ==
    CHOOSE n \in 0..Len(series) :
        /\ \A i \in 1..n : SingleByte(series[i])
        /\ n = Len(series) \/ ~SingleByte(series[n + 1])

\* C18 as stated: the literal is the whole series and is added only if every
\* class is one byte; otherwise a non-negated first class gives one literal
\* for each of its ranges of one byte, and nothing for its wider ranges
C18_WholeSeriesOrSingleRanges ==
    pc = "expected" =>
        LET series == operands.args[1]
        IN answer.literals =
              IF series # <<>> /\ \A i \in 1..Len(series) : SingleByte(series[i])
              THEN {[i \in 1..Len(series) |-> series[i].ranges[1][1]]}
              ELSE IF series # <<>> /\ ~series[1].negated
              THEN {<<series[1].ranges[i][1]>> :
                       i \in {j \in 1..Len(series[1].ranges) :
                                 series[1].ranges[j][1] = series[1].ranges[j][2]}}
              ELSE {}

\* C18 amended: the literal is the longest head of the series made of
\* one-byte classes, when there is one; otherwise a non-negated first class
\* gives a one-byte literal for every byte it matches, and a negated first
\* class or an empty series gives nothing
C18_PrefixOrEveryByte ==
    pc = "expected" =>
        LET series == operands.args[1]
            n == SingleBytePrefix(series)
        IN answer.literals =
              IF n > 0
              THEN {[i \in 1..n |-> series[i].ranges[1][1]]}
              ELSE IF series # <<>> /\ ~series[1].negated
              THEN {<<char>> : char \in {b \in U8_MIN..U8_MAX : class_fn(series[1], b)}}
              ELSE {}

\* inference has reached a series whose two first classes are one byte each
\* and whose third is not, and has added one literal
C18_Witness ==
    /\ pc = "expected"
    /\ Len(operands.args[1]) = 3
    /\ SingleBytePrefix(operands.args[1]) = 2
    /\ Cardinality(answer.literals) = 1

(***************************************************************************)
(* runtime/mod.rs, runtime/result.rs: GenCursor::visit, one turn of its     *)
(* loop at a time, with a visitor that answers as it likes                  *)
(***************************************************************************)
\* the number of label, mark_error and combine calls that build a match tree
MaxBuild == 4

\* the matches ParseResult builds in that many calls from a match of one byte
RECURSIVE MatchesBuilt(_)
MatchesBuilt(n) ==
    IF n = 0 THEN {Match_error_free(1, 1, 1)}
    ELSE {label(m, 0) : m \in MatchesBuilt(n - 1)}
            \cup {mark_error(m, 0) : m \in MatchesBuilt(n - 1)}
            \cup UNION {{Match_combine(first, second) :
                            first \in MatchesBuilt(i), second \in MatchesBuilt(n - 1 - i)} :
                        i \in 0..(n - 1)}

VisitArgs == UNION {MatchesBuilt(n) : n \in 0..MaxBuild}

VisitResult == {"Continue", "Skip", "Exit"}

\* Match::walk_from
walk_from(node, at) ==
    [initialized |-> FALSE, parents |-> <<[position |-> at, node |-> node, child_index |-> 0]>>]

\* skip_node, had it left the node on the stack
skip_node_keeps(w) == w

\* Walk::skip_node
skip_node(w) == [w EXCEPT !.parents = SubSeq(@, 1, Len(@) - 1)]

\* Walk::next: the walk it leaves and the item it returns
Walk_next(w) ==
    IF ~w.initialized
    THEN [walk |-> [w EXCEPT !.initialized = TRUE],
          item |-> Some([position |-> w.parents[Len(w.parents)].position,
                         node |-> w.parents[Len(w.parents)].node, state |-> "Enter"])]
    ELSE IF w.parents = <<>> THEN [walk |-> w, item |-> None]
    ELSE LET top == w.parents[Len(w.parents)]
         IN IF Len(top.node.children) = top.child_index
            THEN [walk |-> [w EXCEPT !.parents = SubSeq(@, 1, Len(@) - 1)],
                  item |-> Some([position |-> top.position + top.node.distance,
                                 node |-> top.node, state |-> "Exit"])]
            ELSE LET child == top.node.children[top.child_index + 1]
                     at == top.position + child[1]
                 IN [walk |-> [w EXCEPT !.parents =
                                  Append([@ EXCEPT ![Len(@)].child_index = @ + 1],
                                         [position |-> at, node |-> child[2], child_index |-> 0])],
                     item |-> Some([position |-> at, node |-> child[2], state |-> "Enter"])]

\* which node of the tree a walk is at: the child taken at each level above it
PathOf(w) == [i \in 1..(Len(w.parents) - 1) |-> w.parents[i].child_index]

\* the call made for an item, on which node, and what the visitor returned
Callback(item, path, returned) ==
    [call |-> IF item.node.grouping.kind = "Label"
              THEN (IF item.state = "Enter" THEN "enter" ELSE "exit")
              ELSE (IF item.state = "Enter" THEN "enter_error" ELSE "exit_error"),
     grouping |-> item.node.grouping.v,
     position |-> item.position,
     length |-> item.node.distance,
     node |-> path,
     returned |-> returned]

InitVisit ==
    /\ pc = "visit"
    /\ parser = <<>>
    /\ InterpIdle
    /\ AnalysisIdle
    /\ PipelineIdle
    /\ answer = <<>>
    /\ callbacks = <<>>
    /\ StoreIdle
    /\ \E m \in VisitArgs :
          /\ operands = [op |-> "visit", args |-> <<GenParseMatch_new(m)>>]
          /\ tree_walk = walk_from(GenParseMatch_new(m), 0)

\* walk.next() returns an Enter of a label or error node: enter or enter_error
\* is called, and the walk goes on, skips the node or the visit returns
VisitEnter ==
    /\ pc = "visit"
    /\ \E n \in {Walk_next(tree_walk)} :
          /\ is_some(n.item)
          /\ unwrap(n.item).state = "Enter"
          /\ unwrap(n.item).node.grouping.kind # "None"
          /\ \E returned \in VisitResult :
                /\ callbacks' = Append(callbacks, Callback(unwrap(n.item), PathOf(n.walk), returned))
                /\ tree_walk' = IF returned = "Skip" THEN skip_node(n.walk) ELSE n.walk
                /\ pc' = IF returned = "Exit" THEN "visited" ELSE "visit"
    /\ UNCHANGED <<parser, interpVars, analysisVars, pipelineVars, operands, answer, keyed, issued, pass_state>>

\* walk.next() returns an Exit of a label or error node: exit or exit_error
VisitExit ==
    /\ pc = "visit"
    /\ \E n \in {Walk_next(tree_walk)} :
          /\ is_some(n.item)
          /\ unwrap(n.item).state = "Exit"
          /\ unwrap(n.item).node.grouping.kind # "None"
          /\ callbacks' = Append(callbacks, Callback(unwrap(n.item), PathOf(tree_walk), "()"))
          /\ tree_walk' = n.walk
    /\ UNCHANGED <<pc, parser, interpVars, analysisVars, pipelineVars, operands, answer, keyed, issued, pass_state>>

\* walk.next() returns a node without grouping: continue
VisitUngrouped ==
    /\ pc = "visit"
    /\ \E n \in {Walk_next(tree_walk)} :
          /\ is_some(n.item)
          /\ unwrap(n.item).node.grouping.kind = "None"
          /\ tree_walk' = n.walk
    /\ UNCHANGED <<pc, parser, interpVars, analysisVars, pipelineVars, operands, answer, callbacks, keyed, issued, pass_state>>

\* walk.next() returns None: the loop ends
VisitEnd ==
    /\ pc = "visit"
    /\ is_none(Walk_next(tree_walk).item)
    /\ pc' = "visited"
    /\ UNCHANGED <<parser, interpVars, analysisVars, pipelineVars, algebraVars>>

NextVisit == VisitEnter \/ VisitExit \/ VisitUngrouped \/ VisitEnd

SpecVisit == InitVisit /\ [][NextVisit]_vars

\* the node of a tree a path leads to
RECURSIVE NodeAt(_, _)
NodeAt(node, path) ==
    IF path = <<>> THEN node ELSE NodeAt(node.children[Head(path)][2], Tail(path))

\* the paths to the nodes of a tree
RECURSIVE Paths(_)
Paths(node) ==
    {<<>>} \cup UNION {{<<i>> \o path : path \in Paths(node.children[i][2])} :
                          i \in 1..Len(node.children)}

\* the paths to the label and error nodes of the tree that is visited
Grouped == {path \in Paths(operands.args[1]) : NodeAt(operands.args[1], path).grouping.kind # "None"}

\* path leads to a node below the node anc leads to
Below(path, anc) == Len(anc) < Len(path) /\ SubSeq(path, 1, Len(anc)) = anc

IsEnter(c) == c.call \in {"enter", "enter_error"}

IsExit(c) == c.call \in {"exit", "exit_error"}

\* callback j is the exit of the node callback i entered
Closes(j, i) ==
    /\ i < j
    /\ IsEnter(callbacks[i])
    /\ IsExit(callbacks[j])
    /\ callbacks[i].node = callbacks[j].node
    /\ (callbacks[i].call = "enter") <=> (callbacks[j].call = "exit")

\* C19: every exit closes one enter of the same node that returned Continue,
\* with only that node's descendants in between and all of them visited or
\* skipped from above; a node is entered and left at most once and, when the
\* visit ends without an Exit, left if its enter returned Continue; after a
\* Skip neither the node's descendants nor its exit are called; an Exit is
\* the last callback
C19_CallbacksAreNested ==
    pc \in {"visit", "visited"} =>
        /\ \A j \in 1..Len(callbacks) : IsExit(callbacks[j]) =>
              \E i \in 1..(j - 1) :
                 /\ Closes(j, i)
                 /\ callbacks[i].returned = "Continue"
                 /\ \A k \in (i + 1)..(j - 1) : Below(callbacks[k].node, callbacks[i].node)
                 /\ \A path \in Grouped : Below(path, callbacks[i].node) =>
                       \E k \in (i + 1)..(j - 1) :
                          /\ IsEnter(callbacks[k])
                          /\ \/ callbacks[k].node = path
                             \/ callbacks[k].returned = "Skip" /\ Below(path, callbacks[k].node)
        /\ \A i, j \in 1..Len(callbacks) :
              (i # j /\ callbacks[i].node = callbacks[j].node) =>
                  (IsEnter(callbacks[i]) # IsEnter(callbacks[j]))
        /\ \A i \in 1..Len(callbacks) :
              /\ (pc = "visited" /\ callbacks[i].returned = "Continue"
                     /\ callbacks[Len(callbacks)].returned # "Exit")
                    => \E j \in 1..Len(callbacks) : Closes(j, i)
              /\ callbacks[i].returned = "Skip" =>
                    \A k \in (i + 1)..Len(callbacks) :
                       /\ callbacks[k].node # callbacks[i].node
                       /\ ~Below(callbacks[k].node, callbacks[i].node)
              /\ callbacks[i].returned = "Exit" => (i = Len(callbacks) /\ pc = "visited")

\* a visit has ended in which a node was left after a callback on a node below
\* it, and a node with label or error nodes below it was skipped
C19_Witness ==
    /\ pc = "visited"
    /\ \E i, j \in 1..Len(callbacks) : Closes(j, i) /\ j > i + 1
    /\ \E i \in 1..Len(callbacks) :
          /\ callbacks[i].returned = "Skip"
          /\ \E path \in Grouped : Below(path, callbacks[i].node)

\* C20: exit and exit_error are passed the position the matching enter or
\* enter_error was passed
C20_ExitPositionIsEnterPosition ==
    pc \in {"visit", "visited"} =>
        \A i, j \in 1..Len(callbacks) :
            Closes(j, i) => callbacks[j].position = callbacks[i].position

(***************************************************************************)
(* store.rs: a Store driven through reserve, insert, set, remove and drain  *)
(***************************************************************************)
\* the keys the model lets the store hand out before it stops growing
MaxKeys == 3

StoreValues == {"x", "y"}

InitStore ==
    /\ pc = "store"
    /\ parser = <<>>
    /\ InterpIdle
    /\ AnalysisIdle
    /\ PipelineIdle
    /\ operands = <<>>
    /\ answer = <<>>
    /\ tree_walk = <<>>
    /\ callbacks = <<>>
    /\ keyed = Store_new
    /\ issued = {}
    /\ pass_state = <<>>

\* a call on the store: what it was given, what it returned, the store it left
Called(op, args, out, left, keys) ==
    /\ operands' = [op |-> op, args |-> args]
    /\ answer' = out
    /\ keyed' = left
    /\ issued' = issued \cup keys
    /\ UNCHANGED <<pc, parser, interpVars, analysisVars, pipelineVars, tree_walk, callbacks, pass_state>>

StoreReserve ==
    /\ pc = "store"
    /\ keyed.next_id < MaxKeys
    /\ Called("reserve", <<>>, Store_reserve(keyed).id, Store_reserve(keyed).store,
              {Store_reserve(keyed).id})

StoreInsert ==
    /\ pc = "store"
    /\ keyed.next_id < MaxKeys
    /\ \E value \in StoreValues :
          Called("insert", <<value>>, keyed.next_id, Store_insert(keyed, value), {keyed.next_id})

StoreSet ==
    /\ pc = "store"
    /\ \E id \in 0..(MaxKeys - 1), value \in StoreValues :
          Called("set", <<id, value>>, "()", Store_set(keyed, id, value), {id})

StoreRemove ==
    /\ pc = "store"
    /\ \E id \in 0..(MaxKeys - 1) :
          Called("remove", <<id>>,
                 IF id \in Store_ids(keyed) THEN Some(keyed.map[id]) ELSE None,
                 Store_remove(keyed, id), {})

StoreDrain ==
    /\ pc = "store"
    /\ Called("drain", <<>>, keyed.map, Store_drain(keyed), {})

NextStore == StoreReserve \/ StoreInsert \/ StoreSet \/ StoreRemove \/ StoreDrain

SpecStore == InitStore /\ [][NextStore]_vars

\* C21: next_id never decreases, and reserve and insert never return a key
\* that was returned or set earlier on the store
C21_KeysAreFresh ==
    [][(pc = "store") =>
          ((keyed'.next_id >= keyed.next_id)
              /\ ((operands'.op \in {"reserve", "insert"}) => (answer' \notin issued)))]_vars

(***************************************************************************)
(* runtime/context.rs: where an evaluation leaves the position and how the  *)
(* two stacks move                                                          *)
(***************************************************************************)
\* C22: when a state is popped, the result on top of the result stack is
\* initialised and position is the position at which the popped frame was
\* pushed plus the distance of that result (0 for Unmatched)
C22_PositionFollowsResult ==
    [][(pc = "run" /\ Len(state_stack') < Len(state_stack)) =>
          ((result_stack'[Len(result_stack')].tag \in {"Matched", "Unmatched"})
              /\ (position' = Stack_top(start_stack) + distance(result_stack'[Len(result_stack')])))]_vars

\* a nested instruction has finished with a match that consumed input, under
\* a frame that was pushed further left
C22_Witness ==
    /\ pc = "run"
    /\ Len(state_stack) >= 3
    /\ state(Ctx).stage >= 1
    /\ is_match(result(Ctx))
    /\ result(Ctx).distance >= 1
    /\ is_some(result(Ctx).error_distance)
    /\ position > Stack_top(start_stack)

\* the first branch's result is Unmatched or a match whose tree holds an error
FailedOrErroneous(r) == ~is_match(r) \/ is_some(earliest_error(r))

\* C23: choice_middle starts the second branch exactly when the first
\* branch's result is Unmatched or a match containing an error,
\* first_choice_middle exactly when it is Unmatched; the second branch starts
\* at the position at which the first one started
C23_SecondBranchWhenFirstFails ==
    [][(ChoiceMiddle =>
           (((Len(state_stack') > Len(state_stack)) <=> FailedOrErroneous(result(Ctx)))
               /\ ((Len(state_stack') > Len(state_stack)) =>
                      ((state_stack'[Len(state_stack')] = StateOf(Instr.s, 0))
                          /\ (position' = Stack_top(start_stack))))))
       /\ (FirstChoiceMiddle =>
              (((Len(state_stack') = Len(state_stack)) <=> ~is_match(result(Ctx)))
                  /\ ((Len(state_stack') = Len(state_stack)) =>
                         ((state_stack'[Len(state_stack')] = StateOf(Instr.s, 0))
                             /\ (position' = Stack_top(start_stack))))))]_vars

\* the second branch of a Choice is about to run, at the position of the
\* Choice, after a first branch that matched input with an error in it
C23_Witness ==
    /\ pc = "run"
    /\ Len(state_stack) >= 3
    /\ Len(result_stack) >= 2
    /\ parser.instructions.map[state_stack[Len(state_stack) - 1].id].k = "Choice"
    /\ state_stack[Len(state_stack) - 1].stage = 2
    /\ state(Ctx) = StateOf(parser.instructions.map[state_stack[Len(state_stack) - 1].id].s, 0)
    /\ result(Ctx) = Uninit
    /\ is_match(result_stack[Len(result_stack) - 1])
    /\ is_some(earliest_error(result_stack[Len(result_stack) - 1]))
    /\ result_stack[Len(result_stack) - 1].distance >= 1
    /\ position = start_stack[Len(start_stack) - 1]

\* the state on top is the end of a Seq or a Choice: pop_result, then take_result
ReadsTwoResults ==
    /\ state(Ctx) # FINISH_STATE
    /\ Instr.k \in {"Seq", "Choice"}
    /\ state(Ctx).stage = 2

\* the state on top reads the top of the result stack: the sentinel
\* (finish takes the result) and every stage after the first of an instruction
ReadsResult == state(Ctx) = FINISH_STATE \/ state(Ctx).stage >= 1

\* C24: whenever a primitive is about to run, the results it reads are
\* initialised, the state stack holds a state under the one it may pop, and
\* the result stack holds a result under the one pop_result pops
C24_ReadsAreInitialised ==
    pc = "run" =>
        /\ Len(state_stack) >= 1
        /\ Len(result_stack) >= 1
        /\ state(Ctx) # FINISH_STATE => Len(state_stack) >= 2
        /\ ReadsResult => result(Ctx) # Uninit
        /\ ReadsTwoResults =>
              /\ Len(result_stack) >= 2
              /\ result_stack[Len(result_stack) - 1] # Uninit

\* a nested Seq or Choice is about to pop the second result and take the first
C24_Witness ==
    /\ pc = "run"
    /\ ReadsTwoResults
    /\ Len(result_stack) >= 3
    /\ is_match(result(Ctx))
    /\ is_match(result_stack[Len(result_stack) - 1])

\* the elements of a stack under its top
Under(stack) == SubSeq(stack, 1, Len(stack) - 1)

\* C25: the result stack grows only in a step in which the state stack grows
\* and shrinks only in a step in which the state stack shrinks, by one
\* element; a push leaves every result already there in place and a pop
\* removes the result pushed last, so stashed results come back in reverse
\* order; the result stack is never deeper than the state stack
C25_StacksMoveTogether ==
    [][(pc = "run") =>
          (((Len(result_stack') > Len(result_stack)) =>
               ((Len(state_stack') > Len(state_stack)) /\ (Under(result_stack') = result_stack)))
           /\ ((Len(result_stack') < Len(result_stack)) =>
                  ((Len(state_stack') < Len(state_stack))
                      /\ (Len(result_stack') = Len(result_stack) - 1)
                      /\ (Under(result_stack') = Under(Under(result_stack)))))
           /\ ((Len(result_stack') = Len(result_stack)) =>
                  (Under(result_stack') = Under(result_stack)))
           /\ (Len(result_stack) <= Len(state_stack))
           /\ (Len(result_stack') <= Len(state_stack')))]_vars

\* two results are stashed under a fresh slot and the state stack is deeper
C25_Witness ==
    /\ pc = "run"
    /\ Len(result_stack) >= 3
    /\ Len(state_stack) > Len(result_stack)
    /\ result(Ctx) = Uninit
    /\ result_stack[Len(result_stack) - 1] # Uninit
    /\ result_stack[Len(result_stack) - 2] # Uninit

(***************************************************************************)
(* core/transformation/deduplication.rs: components                         *)
(***************************************************************************)
\* C26: deduplicate never stops in reassign_component on a failed assertion
C26_ReassignNeverAsserts == pc \notin {"panicked", "panicked_again"}

\* two distinct instructions on a common cycle that are the same instruction:
\* same kind, same series, label or expected, same successors
Twins(p, i, j) ==
    /\ i # j
    /\ j \in Closure(p, Range(successors(InstructionAt(p, i))))
    /\ i \in Closure(p, Range(successors(InstructionAt(p, j))))
    /\ InstructionAt(p, i) = InstructionAt(p, j)

\* C27: after deduplicate no strongly connected component reachable from
\* start holds two distinct instructions that are identical
C27_NoTwinsInComponent ==
    pc = "deduplicated" =>
        \A i, j \in Closure(parser, {parser.start}) : ~Twins(parser, i, j)

(***************************************************************************)
(* core/transformation/normalize.rs: Parser::normalize one turn of the      *)
(* while loop of run_passes at a time                                       *)
(***************************************************************************)
\* the graphs transform hands to normalize in its first round
NormalizeInputs == {sort(trim(infer_expecteds(g))) : g \in LoadedGrammars}

InitNormalize ==
    /\ parser \in NormalizeInputs
    /\ pc = "normalize"
    /\ InterpIdle
    /\ AnalysisIdle
    /\ PipelineIdle
    /\ operands = <<>>
    /\ answer = <<>>
    /\ tree_walk = <<>>
    /\ callbacks = <<>>
    /\ keyed = <<>>
    /\ issued = {}
    /\ pass_state = [stage |-> 1]

\* a turn that reports a replacement whether or not the instruction changed
run_passes_turn_always_modified(st, passes) ==
    LET id == st.queue[Len(st.queue)]
        popped == [st EXCEPT !.queue = SubSeq(@, 1, Len(@) - 1)]
        instruction == InstructionAt(st.parser, id)
    IN Bind(normalize_instruction(popped, id, instruction, passes),
            LAMBDA r :
                IF is_some(r.new) /\ unwrap(r.new) # instruction
                THEN [state |-> [r.state EXCEPT
                                    !.queue = OrderedSet_push(
                                        OrderedSet_extend(@, ascending(r.state.predecessors[id])),
                                        id),
                                    !.predecessors = relink(@, id, instruction),
                                    !.characters = patch_characters(r.state.parser, @, <<id>>),
                                    !.parser.instructions = Store_set(@, id, unwrap(r.new))],
                      replaced |-> TRUE]
                ELSE [state |-> r.state, replaced |-> TRUE])

\* one turn of the while loop of run_passes: the State it leaves and whether
\* it replaced the instruction
run_passes_turn(st, passes) ==
    LET id == st.queue[Len(st.queue)]
        popped == [st EXCEPT !.queue = SubSeq(@, 1, Len(@) - 1)]
        instruction == InstructionAt(st.parser, id)
    IN Bind(normalize_instruction(popped, id, instruction, passes),
            LAMBDA r :
                IF is_some(r.new) /\ unwrap(r.new) # instruction
                THEN [state |-> [r.state EXCEPT
                                    !.queue = OrderedSet_push(
                                        OrderedSet_extend(@, ascending(r.state.predecessors[id])),
                                        id),
                                    !.predecessors = relink(@, id, instruction),
                                    !.characters = patch_characters(r.state.parser, @, <<id>>),
                                    !.parser.instructions = Store_set(@, id, unwrap(r.new))],
                      replaced |-> TRUE]
                ELSE [state |-> r.state, replaced |-> FALSE])

\* run_passes up to its while loop
RunPassesStart ==
    /\ pc = "normalize"
    /\ pass_state.stage <= Len(STAGES)
    /\ pass_state' = [stage |-> pass_state.stage,
                      modified |-> FALSE,
                      id |-> NoId,
                      state |-> [parser |-> parser,
                                 settings |-> CompilerSettings_normal,
                                 queue |-> Reverse(walk(parser)),
                                 predecessors |-> compute_predecessors(parser),
                                 characters |-> characterize(parser)]]
    /\ pc' = "run_passes"
    /\ UNCHANGED <<parser, interpVars, analysisVars, pipelineVars, operands, answer,
                   tree_walk, callbacks, keyed, issued>>

\* the while loop of run_passes, one instruction popped from the queue
RunPassesTurn ==
    /\ pc = "run_passes"
    /\ pass_state.state.queue # <<>>
    /\ \E r \in {run_passes_turn(pass_state.state, STAGES[pass_state.stage])} :
          /\ pass_state' = [pass_state EXCEPT
                               !.state = r.state,
                               !.modified = @ \/ r.replaced,
                               !.id = IF r.replaced
                                      THEN pass_state.state.queue[Len(pass_state.state.queue)]
                                      ELSE NoId]
          /\ parser' = r.state.parser
    /\ UNCHANGED <<pc, interpVars, analysisVars, pipelineVars, operands, answer,
                   tree_walk, callbacks, keyed, issued>>

\* the queue is empty: trim, and normalize goes on with the first stage if
\* the stage modified the graph and with the next one if not
RunPassesReturn ==
    /\ pc = "run_passes"
    /\ pass_state.state.queue = <<>>
    /\ parser' = trim(parser)
    /\ pass_state' = [stage |-> IF pass_state.modified THEN 1 ELSE pass_state.stage + 1]
    /\ pc' = "normalize"
    /\ UNCHANGED <<interpVars, analysisVars, pipelineVars, operands, answer,
                   tree_walk, callbacks, keyed, issued>>

\* every stage has run without modifying the graph: normalize returns
NormalizeReturn ==
    /\ pc = "normalize"
    /\ pass_state.stage > Len(STAGES)
    /\ pc' = "normalized"
    /\ UNCHANGED <<parser, interpVars, analysisVars, pipelineVars, algebraVars>>

NextNormalize == RunPassesStart \/ RunPassesTurn \/ RunPassesReturn \/ NormalizeReturn

SpecNormalize == InitNormalize /\ [][NextNormalize]_vars

\* a step of normalize can be taken exactly while normalize has not returned
Running == pc \in {"normalize", "run_passes"}

\* the loops of normalize and run_passes go on while they can: weak fairness
\* of NextNormalize, with Running for its enabling condition
SpecNormalizeFair ==
    /\ SpecNormalize
    /\ WF_vars(NormalizeReturn)
    /\ ([]<>(~Running) \/ []<><<NextNormalize>>_vars)

\* the predecessor map of a State is the inverse of the successor relation of
\* its graph
IsInverse(st) ==
    \A j \in Ids(st.parser) :
        /\ j \in DOMAIN st.predecessors
        /\ st.predecessors[j] =
              {i \in Ids(st.parser) : j \in Range(successors(InstructionAt(st.parser, i)))}

\* C28: each time run_passes replaces an instruction, the predecessor map it
\* leaves is the inverse of the successor relation of the graph it leaves
C28_PredecessorsAreInverse ==
    [][(pc = "run_passes" /\ pc' = "run_passes" /\ pass_state'.id # NoId) =>
          IsInverse(pass_state'.state)]_vars

InDegree(p, id) ==
    Cardinality({e \in Ids(p) \X {1, 2} :
                    /\ e[2] \in DOMAIN successors(InstructionAt(p, e[1]))
                    /\ successors(InstructionAt(p, e[1]))[e[2]] = id})

\* the successors the work estimate descends into: none below a Cache
WorkSuccessors(g, i) ==
    IF InstructionAt(g, i).k \in {"Cache", "Series"} THEN {}
    ELSE Range(successors(InstructionAt(g, i)))

RECURSIVE WorkReach(_, _)
WorkReach(g, S) ==
    LET T == S \cup UNION {WorkSuccessors(g, i) : i \in S}
    IN IF T = S THEN S ELSE WorkReach(g, T)

\* a cycle can be reached from id without passing a Cache
Cyclic(g, id) ==
    \E j \in WorkReach(g, {id}) : j \in WorkReach(g, WorkSuccessors(g, j))

\* the order in which insert_cache_points visits the instructions of p, and
\* the graph it has made of p when it comes to the k-th of them
VisitOrder(p) == Reverse(walk(p))

GraphAt(p, k) ==
    insert_loop(p, SubSeq(VisitOrder(p), 1, k - 1), compute_duplicated_predecessors(p))

\* q has a new Cache(id, None) and none of the instructions of p refers to id
\* any more
IsWrapped(p, q, id) ==
    /\ \E n \in Ids(q) \ Ids(p) : InstructionAt(q, n) = Instruction_Cache(id, NoId)
    /\ \A j \in Ids(p) : id \notin Range(successors(InstructionAt(q, j)))

\* q is p with nothing changed around id
IsLeft(p, q, id) ==
    /\ \A n \in Ids(q) \ Ids(p) : InstructionAt(q, n).f # id
    /\ InDegree(q, id) = InDegree(p, id)

\* the estimate of id, on the graph as the loop finds it, is above the limit
Heavy(g, id) ==
    /\ is_some(Parser_work(g, id, {}))
    /\ unwrap(Parser_work(g, id, {})) > MAX_UNCACHED_WORK

\* the step of transform that inserts the cache points
CachePointsInserted == pc = "insert_cache_points" /\ pc' = "assign_cache_ids"

====
